---- MODULE Spec2Model ----
(***************************************************************************)
(* whatsapp-cli: the local message store (chats, messages, lid_mappings,   *)
(* the FTS5 index and its triggers), the two ingestion handlers with the   *)
(* chat-name backfill, and the auto-sync scheduler.                        *)
(*                                                                         *)
(* SQL statements are modelled with SQLite's semantics as the Go program   *)
(* configures it (DSN "?_foreign_keys=on", recursive_triggers left off,    *)
(* pool of one connection): every statement is atomic, a statement that    *)
(* violates a constraint changes nothing and returns an error, and the     *)
(* store never fails for another reason.                                   *)
(***************************************************************************)
EXTENDS Integers, Sequences, FiniteSets, TLC

VARIABLES
    chats,          \* table chats: jid -> [name, last_message_time]
    messages,       \* table messages: <<id, chat_jid>> -> row (with its rowid)
    fts,            \* virtual table messages_fts: [docsize, postings]
    lid_mappings,   \* table lid_mappings: lid -> [phone, name, updated_at]
    contacts,       \* the transport's contact directory: jid -> ContactInfo
    groups,         \* the transport's group directory: jid -> group name ("" = lookup fails)
    syncComplete,   \* Client.SyncComplete: notifications buffered in the channel (0 or 1)
    ingested,       \* history: key -> [n, prevContent, last] of the persisted ingestions
    droppedBy,      \* history: the producers that had an empty message dropped
    nEvents,        \* number of events delivered so far
    lastCall,       \* history: the operation of the last step, with its inputs
    live,           \* the goroutine running handleMessage: [pc, msg, senderName, existing, name]
    handler,        \* the registered event handler at work: [evt, steps] (steps left to run)
    now,            \* the wall clock, in hours
    lastSync,       \* sync_state: the last sync time (ZeroTime: none recorded)
    noAutoSync,     \* NoAutoSync() of the running command
    session,        \* the session store under GetStoreDir: "broken", "empty" or "paired"
    connected,      \* the client's connection to the transport is open
    cancelled,      \* runSync: ctx is cancelled
    pc,             \* where the running command is ("idle": no command runs)
    outcome         \* how the last command or auto-sync ended: [how, err, connects]

(***************************************************************************)
(* Bounds of the model.                                                    *)
(***************************************************************************)
MaxTs == 2          \* message timestamps are 1..MaxTs (epoch seconds)
MaxEvents == 2      \* events delivered by the transport in one behaviour

(***************************************************************************)
(* Identifiers.  A JID string "user@server" is kept as a string; parsing   *)
(* it (types.ParseJID, parseJID) is the table below.                       *)
(***************************************************************************)
ContactJid == "111@s.whatsapp.net"
GroupJid == "g1@g.us"
OwnJid == "999@s.whatsapp.net"
AllJids == {ContactJid, GroupJid, OwnJid}

JidUser(j) ==
    CASE j = ContactJid -> "111"
      [] j = GroupJid -> "g1"
      [] j = OwnJid -> "999"

JidServer(j) ==
    CASE j = ContactJid -> "s.whatsapp.net"
      [] j = GroupJid -> "g.us"
      [] j = OwnJid -> "s.whatsapp.net"

\* types.JID{User: user, Server: "s.whatsapp.net"}.String()
IndivJid(user) ==
    CASE user = "111" -> ContactJid
      [] user = "999" -> OwnJid

\* fmt.Sprintf("Group %s", parsedJID.User)
GroupPlaceholder(user) ==
    CASE user = "g1" -> "Group g1"
      [] OTHER -> "Group"

\* strings.HasSuffix(name, "@s.whatsapp.net")
HasIndivSuffix(name) == name \in {j \in AllJids : JidServer(j) = "s.whatsapp.net"}

(***************************************************************************)
(* Message text is a sequence of tokens; "" is the empty sequence.  The    *)
(* FTS5 tokenizer yields the set of its tokens.                            *)
(***************************************************************************)
Contents == {<<>>, <<"a">>, <<"b">>}
AllTokens == {"a", "b"}
Tokenize(content) == {content[i] : i \in 1..Len(content)}

\* extractMediaInfo's result: media_type and the descriptor columns (the url
\* stands for filename, url, media_key, file_sha256, file_enc_sha256 and
\* file_length, which are all copied verbatim into the row).
NoMedia == [media_type |-> "", url |-> ""]

\* NULL in a TIMESTAMP column
NullTime == 0

Max(S) == CHOOSE x \in S : \A y \in S : y <= x

(***************************************************************************)
(* The store: statements on chats.                                         *)
(***************************************************************************)
\* QueryRow("SELECT name FROM chats WHERE jid = ?").Scan(&existing) into a
\* sql.NullString: no row leaves it {Valid: false, String: ""}
QueryChatName(ch, jid) ==
    IF jid \in DOMAIN ch
    THEN [Valid |-> TRUE, String |-> ch[jid].name]
    ELSE [Valid |-> FALSE, String |-> ""]

\* INSERT INTO chats (jid, name) VALUES (?, ?): fails on an existing jid
ExecInsertChat(ch, jid, name) ==
    IF jid \in DOMAIN ch
    THEN ch
    ELSE [j \in DOMAIN ch \cup {jid} |->
            IF j = jid THEN [name |-> name, last_message_time |-> NullTime]
            ELSE ch[j]]

\* UPDATE chats SET name = ? WHERE jid = ?
ExecUpdateChatName(ch, jid, name) ==
    [j \in DOMAIN ch |-> IF j = jid THEN [ch[j] EXCEPT !.name = name] ELSE ch[j]]

\* INSERT OR REPLACE INTO chats (jid, name, last_message_time) VALUES (?, ?, ?)
ExecUpsertChat(ch, jid, name, t) ==
    [j \in DOMAIN ch \cup {jid} |->
        IF j = jid THEN [name |-> name, last_message_time |-> t] ELSE ch[j]]

(***************************************************************************)
(* The store: messages and the FTS5 index kept by the triggers of migrate. *)
(* The index is an external-content FTS5 table: its postings (rowid,token) *)
(* and its docsize rows are changed only by what the triggers send it.     *)
(***************************************************************************)
EmptyFts == [docsize |-> {}, postings |-> {}]

\* INSERT INTO messages_fts(rowid, content) VALUES (new.rowid, new.content)
FtsInsert(f, rowid, content) ==
    [docsize |-> f.docsize \cup {rowid},
     postings |-> f.postings \cup {<<rowid, t>> : t \in Tokenize(content)}]

\* INSERT INTO messages_fts(messages_fts, rowid) VALUES('delete', old.rowid):
\* FTS5 removes the postings of the column values the command is given; the
\* triggers give it no content, so it removes the docsize row and no posting.
FtsDelete(f, rowid) ==
    [docsize |-> f.docsize \ {rowid},
     postings |-> f.postings \ {<<rowid, t>> : t \in Tokenize(<<>>)}]

\* INSERT INTO messages_fts(messages_fts) VALUES('rebuild')
FtsRebuild(msgs) ==
    [docsize |-> {msgs[k].rowid : k \in DOMAIN msgs},
     postings |-> UNION {{<<msgs[k].rowid, t>> : t \in Tokenize(msgs[k].content)} :
                            k \in DOMAIN msgs}]

\* the rowid SQLite gives a new row of a rowid table: one more than the
\* largest rowid in the table, chosen before REPLACE removes the old row
NewRowid(msgs) ==
    IF DOMAIN msgs = {} THEN 1 ELSE Max({msgs[k].rowid : k \in DOMAIN msgs}) + 1

\* an INSERT ON messages that fires no trigger
Trigger_none(f, new) == f

\* trigger messages_ai AFTER INSERT ON messages
Trigger_messages_ai(f, new) == FtsInsert(f, new.rowid, new.content)

\* trigger messages_ad AFTER DELETE ON messages
Trigger_messages_ad(f, old) == FtsDelete(f, old.rowid)

\* trigger messages_au AFTER UPDATE ON messages
Trigger_messages_au(f, old, new) ==
    FtsInsert(FtsDelete(f, old.rowid), new.rowid, new.content)

\* INSERT OR REPLACE INTO messages (...) VALUES (...) on db = [chats, messages, fts].
\* FOREIGN KEY (chat_jid) REFERENCES chats(jid) is enforced; the row REPLACE
\* removes fires no delete trigger (recursive_triggers is off); messages_ai
\* fires for the new row.
\* the statement as INSERT OR IGNORE: a row already stored under the key stays
ExecInsertOrIgnoreMessage(db, key, cols) ==
    IF key[2] \notin DOMAIN db.chats
    THEN [db EXCEPT !.ok = FALSE]
    ELSE IF key \in DOMAIN db.messages
    THEN [db EXCEPT !.ok = TRUE]
    ELSE LET new == [cols EXCEPT !.rowid = NewRowid(db.messages)]
         IN  [db EXCEPT !.messages = [k \in DOMAIN db.messages \cup {key} |->
                                         IF k = key THEN new ELSE db.messages[k]],
                        !.fts = Trigger_messages_ai(db.fts, new),
                        !.ok = TRUE]

ExecInsertOrReplaceMessage(db, key, cols) ==
    IF key[2] \notin DOMAIN db.chats
    THEN [db EXCEPT !.ok = FALSE]
    ELSE LET new == [cols EXCEPT !.rowid = NewRowid(db.messages)]
         IN  [db EXCEPT !.messages = [k \in DOMAIN db.messages \cup {key} |->
                                         IF k = key THEN new ELSE db.messages[k]],
                        !.fts = Trigger_messages_ai(db.fts, new),
                        !.ok = TRUE]

\* UPDATE messages SET content = ? WHERE id = ? AND chat_jid = ?
ExecUpdateMessage(db, key, content) ==
    IF key \notin DOMAIN db.messages
    THEN db
    ELSE LET old == db.messages[key]
             new == [old EXCEPT !.content = content]
         IN  [db EXCEPT !.messages = [db.messages EXCEPT ![key] = new],
                        !.fts = Trigger_messages_au(db.fts, old, new)]

\* DELETE FROM messages WHERE id = ? AND chat_jid = ?
ExecDeleteMessage(db, key) ==
    IF key \notin DOMAIN db.messages
    THEN db
    ELSE [db EXCEPT !.messages = [k \in DOMAIN db.messages \ {key} |-> db.messages[k]],
                    !.fts = Trigger_messages_ad(db.fts, db.messages[key])]

\* SearchMessages: messages m JOIN messages_fts fts ON m.rowid = fts.rowid
\* WHERE messages_fts MATCH token (the keys of the rows returned)
SearchMessages(msgs, f, token) ==
    {k \in DOMAIN msgs : <<msgs[k].rowid, token>> \in f.postings}

(***************************************************************************)
(* Identity resolution (the directory is the transport's contact store and *)
(* group info; a contact that is not found has empty fields).              *)
(***************************************************************************)
NoContact == [FullName |-> "", BusinessName |-> "", PushName |-> ""]
ContactInfos ==
    {NoContact,
     [FullName |-> "Alice", BusinessName |-> "", PushName |-> "ali"],
     [FullName |-> "", BusinessName |-> "Shop", PushName |-> ""]}
GroupNames == {"", "Team"}

\* c.WA.Store.Contacts.GetContact(ctx, jid)
GetContact(jid) == IF jid \in DOMAIN contacts THEN contacts[jid] ELSE NoContact

\* c.WA.GetGroupInfo(ctx, jid): the name, "" when the lookup fails
GetGroupInfo(jid) == IF jid \in DOMAIN groups THEN groups[jid] ELSE ""

resolvePreferredName(jidStr) ==
    IF JidServer(jidStr) = "g.us"
    THEN IF GetGroupInfo(jidStr) # ""
         THEN GetGroupInfo(jidStr)
         ELSE GroupPlaceholder(JidUser(jidStr))
    ELSE LET contact == GetContact(jidStr)
         IN  IF contact.FullName # "" THEN contact.FullName
             ELSE IF contact.BusinessName # "" THEN contact.BusinessName
             ELSE IF contact.PushName # "" THEN contact.PushName
             ELSE JidUser(jidStr)

getChatName(ch, jid, chatJID, sender) ==
    LET existing == QueryChatName(ch, chatJID)
    IN  IF existing.Valid /\ existing.String # "" THEN existing.String
        ELSE IF resolvePreferredName(jid) # "" THEN resolvePreferredName(jid)
        ELSE IF sender # "" THEN sender
        ELSE JidUser(chatJID)

\* DB.GetLIDMapping
GetLIDMapping(lid) ==
    IF lid \in DOMAIN lid_mappings
    THEN [phone |-> lid_mappings[lid].phone, name |-> lid_mappings[lid].name, found |-> TRUE]
    ELSE [phone |-> "", name |-> "", found |-> FALSE]

\* DB.ResolveSenderName
StoreResolveSenderName(ch, sender) ==
    LET m == GetLIDMapping(sender)
        chatName == QueryChatName(ch, IndivJid(sender))
    IN  IF m.found /\ m.name # "" THEN m.name
        ELSE IF chatName.Valid /\ chatName.String # "" THEN chatName.String
        ELSE ""

\* Client.resolveSenderName (senderJID "" is the empty JID)
resolveSenderName(ch, sender, senderJID, pushName) ==
    LET byJid == GetContact(senderJID)
        byPhone == GetContact(IndivJid(sender))
    IN  IF StoreResolveSenderName(ch, sender) # "" THEN StoreResolveSenderName(ch, sender)
        ELSE IF senderJID # "" /\ byJid.FullName # "" THEN byJid.FullName
        ELSE IF senderJID # "" /\ byJid.PushName # "" THEN byJid.PushName
        ELSE IF senderJID # "" /\ byPhone.FullName # "" THEN byPhone.FullName
        ELSE IF senderJID # "" /\ byPhone.PushName # "" THEN byPhone.PushName
        ELSE IF pushName # "" THEN pushName
        ELSE ""

(***************************************************************************)
(* The ingestion handlers.  A handler works on db = [chats, messages, fts, *)
(* ok, stored]: ok is the result of its last messages statement, stored    *)
(* the <<key, column values>> it persisted, in order.                      *)
(***************************************************************************)
Db(ch, msgs, f) ==
    [chats |-> ch, messages |-> msgs, fts |-> f, ok |-> TRUE, stored |-> <<>>, dropped |-> 0]

\* the per-sender entry inserted without resolving a name
ShadowChatStmtUnnamed(ch, indiv, existing) ==
    IF ~existing.Valid
    THEN ExecInsertChat(ch, indiv, "")
    ELSE ch

\* "Ensure we have a per-sender chat entry": the SELECT and the statement
\* that follows it
ShadowChatStmt(ch, indiv, existing) ==
    IF ~existing.Valid
    THEN ExecInsertChat(ch, indiv, resolvePreferredName(indiv))
    ELSE IF existing.String = "" /\ resolvePreferredName(indiv) # ""
    THEN ExecUpdateChatName(ch, indiv, resolvePreferredName(indiv))
    ELSE ch

ShadowChat(ch, indiv) == ShadowChatStmt(ch, indiv, QueryChatName(ch, indiv))

\* the column values of a messages row (rowid is set by the store)
Row(sender, senderName, content, t, fromMe, media) ==
    [rowid |-> 0, sender |-> sender, sender_name |-> senderName, content |-> content,
     timestamp |-> t, is_from_me |-> fromMe,
     media_type |-> media.media_type, url |-> media.url]

\* the INSERT OR REPLACE INTO messages of a handler, recorded when it succeeds
StoreMessage(db, key, cols) ==
    LET r == ExecInsertOrReplaceMessage(db, key, cols)
    IN  IF r.ok
        THEN [r EXCEPT !.stored = Append(db.stored, <<key, cols>>)]
        ELSE [db EXCEPT !.ok = FALSE]

\* the guard with its second test inverted
IsEmptyMessageNoMedia(content, mediaType) == content = <<>> /\ mediaType # ""

\* the text-or-media filter of both handlers
IsEmptyMessage(content, mediaType) == content = <<>> /\ mediaType = ""

\* Client.handleMessage
handleMessage(db, msg) ==
    LET chatJID == msg.Chat
        sender == JidUser(msg.Sender)
    IN  IF IsEmptyMessage(msg.content, msg.media.media_type)
        THEN [db EXCEPT !.dropped = @ + 1]
        ELSE LET senderName == resolveSenderName(db.chats, sender, msg.Sender, msg.PushName)
                 ch1 == IF sender # "" THEN ShadowChat(db.chats, IndivJid(sender)) ELSE db.chats
                 name == getChatName(ch1, chatJID, chatJID, sender)
                 ch2 == ExecUpsertChat(ch1, chatJID, name, msg.Timestamp)
             IN  StoreMessage([db EXCEPT !.chats = ch2], <<msg.ID, chatJID>>,
                              Row(sender, senderName, msg.content, msg.Timestamp,
                                  msg.IsFromMe, msg.media))

\* the sender of a history-sync message: the chat's user, the participant of
\* a message that is not ours, our own user for ours; a JID string is cut to
\* its user part
HistSender(chatJID, m) ==
    LET snd0 == JidUser(chatJID)
        snd1 == IF ~m.FromMe /\ m.Participant # "" THEN m.Participant ELSE snd0
        snd2 == IF m.FromMe THEN JidUser(OwnJid) ELSE snd1
    IN  IF snd2 \in AllJids THEN JidUser(snd2) ELSE snd2

\* the iteration without the test of the timestamp
HistMessageUntimed(db, chatJID, m) ==
    IF IsEmptyMessage(m.text, m.media.media_type)
    THEN [db EXCEPT !.dropped = @ + 1]
    ELSE LET snd == HistSender(chatJID, m)
             ch1 == IF ~m.FromMe /\ snd # ""
                    THEN ShadowChat(db.chats, IndivJid(snd))
                    ELSE db.chats
         IN  StoreMessage([db EXCEPT !.chats = ch1], <<m.ID, chatJID>>,
                          Row(snd, resolvePreferredName(IndivJid(snd)), m.text, m.Timestamp,
                              m.FromMe, m.media))

\* one iteration of "for _, m := range conv.Messages"
HistMessage(db, chatJID, m) ==
    IF IsEmptyMessage(m.text, m.media.media_type)
    THEN [db EXCEPT !.dropped = @ + 1]
    ELSE LET snd == HistSender(chatJID, m)
             ch1 == IF ~m.FromMe /\ snd # ""
                    THEN ShadowChat(db.chats, IndivJid(snd))
                    ELSE db.chats
             senderName == IF StoreResolveSenderName(ch1, snd) # ""
                           THEN StoreResolveSenderName(ch1, snd)
                           ELSE resolvePreferredName(IndivJid(snd))
         IN  IF m.Timestamp = 0
             THEN [db EXCEPT !.chats = ch1]
             ELSE StoreMessage([db EXCEPT !.chats = ch1], <<m.ID, chatJID>>,
                               Row(snd, senderName, m.text, m.Timestamp, m.FromMe, m.media))

RECURSIVE HistMessages(_, _, _, _)
HistMessages(db, chatJID, msgs, i) ==
    IF i > Len(msgs) THEN db
    ELSE HistMessages(HistMessage(db, chatJID, msgs[i]), chatJID, msgs, i + 1)

\* the chat upsert of a conversation: from its first message, if that has a timestamp
HistChatUpsert(ch, conv, name) ==
    IF Len(conv.Messages) > 0 /\ conv.Messages[1].Timestamp # 0
    THEN ExecUpsertChat(ch, conv.ID, name, conv.Messages[1].Timestamp)
    ELSE ch

\* one iteration of "for _, conv := range hs.Data.Conversations"
HistConversation(db, conv) ==
    LET name == getChatName(db.chats, conv.ID, conv.ID, "")
    IN  HistMessages([db EXCEPT !.chats = HistChatUpsert(db.chats, conv, name)],
                     conv.ID, conv.Messages, 1)

RECURSIVE HistConversations(_, _, _)
HistConversations(db, convs, i) ==
    IF i > Len(convs) THEN db
    ELSE HistConversations(HistConversation(db, convs[i]), convs, i + 1)

\* Client.handleHistorySync
handleHistorySync(db, hs) == HistConversations(db, hs.Conversations, 1)

\* a scan that selects every row
NeedsBackfillAny(jid, name) == TRUE

\* backfillChatNames: the rows its scan selects
NeedsBackfill(jid, name) ==
    IF JidServer(jid) = "g.us"
    THEN name = "" \/ name = JidUser(jid)
    ELSE name = "" \/ name = JidUser(jid) \/ HasIndivSuffix(name)

\* backfillChatNames: the UPDATE for one selected row r = [jid, name]
BackfillRow(ch, r) ==
    LET resolved == resolvePreferredName(r.jid)
    IN  IF resolved = "" \/ resolved = r.name
        THEN ch
        ELSE ExecUpdateChatName(ch, r.jid, resolved)

\* Client.backfillChatNames (the rows do not depend on one another)
backfillChatNames(ch) ==
    [j \in DOMAIN ch |->
        IF NeedsBackfill(j, ch[j].name)
        THEN BackfillRow(ch, [jid |-> j, name |-> ch[j].name])[j]
        ELSE ch[j]]

\* progress at which a history sync counts as complete
CompleteProgress == 100

\* c.SyncComplete <- struct{}{} without the default case: on a full channel
\* the send stays pending with the handler blocked in it
SignalCompleteSend(buffered) == buffered + 1

\* select { case c.SyncComplete <- struct{}{}: default: } on a channel of capacity 1
SignalComplete(buffered) == IF buffered < 1 THEN buffered + 1 ELSE buffered

(***************************************************************************)
(* The events the transport delivers.                                      *)
(***************************************************************************)
MsgIds == {"M1"}
ChatJids == {ContactJid, GroupJid}
Progresses == {50, 100}

\* what a message carries: text, media, both or neither
Payloads ==
    {[content |-> <<>>, media |-> NoMedia],
     [content |-> <<"a">>, media |-> NoMedia],
     [content |-> <<"b">>, media |-> NoMedia],
     [content |-> <<>>, media |-> [media_type |-> "image", url |-> "u1"]]}

\* events.Message: a message of ours comes from our own JID, any other from the contact
LiveMessage(id, chat, fromMe, t, pn, pl) ==
    [ID |-> id, Chat |-> chat, Sender |-> IF fromMe THEN OwnJid ELSE ContactJid,
     IsFromMe |-> fromMe, Timestamp |-> t, PushName |-> pn,
     content |-> pl.content, media |-> pl.media]

\* a message of a history-sync conversation (Timestamp 0: none); in a group a
\* message that is not ours names its participant
HistMsg(chat, id, fromMe, t, pl) ==
    [ID |-> id, FromMe |-> fromMe,
     Participant |-> IF ~fromMe /\ JidServer(chat) = "g.us" THEN ContactJid ELSE "",
     Timestamp |-> t, text |-> pl.content, media |-> pl.media]

\* events.HistorySync with one conversation
HistorySync(chat, ms, p) ==
    [Conversations |-> <<[ID |-> chat, Messages |-> ms]>>, Progress |-> p]

\* the contact's messages, live
LiveMessages ==
    {LiveMessage(id, chat, FALSE, t, "ali", pl) :
        id \in MsgIds, chat \in ChatJids, t \in 1..MaxTs, pl \in Payloads}

\* history-sync batches of one conversation with at most one message of the contact
HistorySyncsOf(chat) ==
    {HistorySync(chat, ms, p) :
        ms \in {<<>>} \cup {<<HistMsg(chat, id, FALSE, t, pl)>> :
                                id \in MsgIds, t \in 0..MaxTs, pl \in Payloads},
        p \in Progresses}

HistorySyncs == UNION {HistorySyncsOf(chat) : chat \in ChatJids}

\* the history of persisted ingestions, one <<key, cols>> at a time
RECURSIVE Recorded(_, _, _)
Recorded(ing, stored, i) ==
    IF i > Len(stored) THEN ing
    ELSE LET key == stored[i][1]
             cols == stored[i][2]
             seen == key \in DOMAIN ing
             next == [k \in DOMAIN ing \cup {key} |->
                        IF k = key
                        THEN [n |-> IF seen THEN 2 ELSE 1,
                              prevContent |-> IF seen THEN ing[key].last.content ELSE <<>>,
                              last |-> cols]
                        ELSE ing[k]]
         IN  Recorded(next, stored, i + 1)

\* the handler's writes reach the store
Commit(db, producer) ==
    /\ chats' = db.chats
    /\ messages' = db.messages
    /\ fts' = db.fts
    /\ ingested' = Recorded(ingested, db.stored, 1)
    /\ droppedBy' = IF db.dropped > 0 THEN droppedBy \cup {producer} ELSE droppedBy

(***************************************************************************)
(* The event handler registered by registerHandlers, one action per event  *)
(* kind; each runs its handler to the end.                                 *)
(***************************************************************************)
OnMessage(M) ==
    \E msg \in M :
        /\ Commit(handleMessage(Db(chats, messages, fts), msg), "live")
        /\ UNCHANGED <<lid_mappings, contacts, groups, syncComplete>>

OnHistorySync(H) ==
    \E hs \in H :
        LET db == handleHistorySync(Db(chats, messages, fts), hs)
            done == hs.Progress >= CompleteProgress
        IN  /\ Commit([db EXCEPT !.chats = IF done THEN backfillChatNames(db.chats)
                                            ELSE db.chats], "history")
            /\ syncComplete' = IF done THEN SignalComplete(syncComplete) ELSE syncComplete
            /\ UNCHANGED <<lid_mappings, contacts, groups>>

OnOfflineSyncCompleted ==
    /\ chats' = backfillChatNames(chats)
    /\ syncComplete' = SignalComplete(syncComplete)
    /\ UNCHANGED <<messages, fts, ingested, droppedBy, lid_mappings, contacts, groups>>

\* the transport learns or loses a contact or a group name
DirectoryUpdate ==
    /\ \E c \in ContactInfos, g \in GroupNames :
          /\ contacts' = [contacts EXCEPT ![ContactJid] = c]
          /\ groups' = [groups EXCEPT ![GroupJid] = g]
          /\ <<c, g>> # <<contacts[ContactJid], groups[GroupJid]>>
    /\ UNCHANGED <<chats, messages, fts, lid_mappings, syncComplete, ingested, droppedBy>>

\* one more event of the bounded run
Deliver == nEvents < MaxEvents /\ nEvents' = nEvents + 1

ingestVars ==
    <<chats, messages, fts, lid_mappings, contacts, groups, syncComplete, ingested,
      droppedBy, nEvents>>
syncVars == <<now, lastSync, noAutoSync, session, connected, cancelled, pc, outcome>>

vars == <<ingestVars, lastCall, live, handler, syncVars>>

\* a store just created by Open
InitStore ==
    /\ chats = <<>>
    /\ messages = <<>>
    /\ fts = EmptyFts
    /\ lid_mappings = <<>>
    /\ syncComplete = 0
    /\ ingested = <<>>
    /\ droppedBy = {}
    /\ nEvents = 0

\* any directory
InitDirectory ==
    /\ contacts \in [{ContactJid} -> ContactInfos]
    /\ groups \in [{GroupJid} -> GroupNames]

\* a directory that knows nobody
InitNoDirectory ==
    /\ contacts = [j \in {ContactJid} |-> NoContact]
    /\ groups = [j \in {GroupJid} |-> ""]

ZeroTime == 0
NoCall == [name |-> "none"]
NoOutcome == [how |-> "none", err |-> FALSE, connects |-> 0]
LiveIdle == [pc |-> "idle"]
HandlerIdle == [evt |-> [kind |-> "none"], steps |-> <<>>]

\* a paired client connected by sync --follow, no message being handled
InitFollowing ==
    /\ lastCall = NoCall
    /\ live = LiveIdle
    /\ handler = HandlerIdle
    /\ now = 1
    /\ lastSync = ZeroTime
    /\ noAutoSync = FALSE
    /\ session = "paired"
    /\ connected = TRUE
    /\ cancelled = FALSE
    /\ pc = "follow"
    /\ outcome = NoOutcome

Init == InitStore /\ InitDirectory /\ InitFollowing

(***************************************************************************)
(* Spec: the contact's messages arrive live and by history sync, each      *)
(* event handled to the end before the next.                               *)
(***************************************************************************)
Next ==
    \/ Deliver /\ OnMessage(LiveMessages) /\ UNCHANGED <<lastCall, live, handler, syncVars>>
    \/ Deliver /\ OnHistorySync(HistorySyncs) /\ UNCHANGED <<lastCall, live, handler, syncVars>>
    \/ Deliver /\ OnOfflineSyncCompleted /\ UNCHANGED <<lastCall, live, handler, syncVars>>

Spec == Init /\ [][Next]_vars

(***************************************************************************)
(* C1: a key persisted twice holds the values of the second ingestion in   *)
(* every column; search finds it by the tokens of the second content and   *)
(* finds nothing for a token that only the earlier content had.            *)
(***************************************************************************)
TokenInStore(tok) == \E k \in DOMAIN ingested : tok \in Tokenize(ingested[k].last.content)

C1_LastWriteWins ==
    \A k \in DOMAIN ingested :
        ingested[k].n = 2 =>
            /\ k \in DOMAIN messages
            /\ [messages[k] EXCEPT !.rowid = 0] = ingested[k].last
            /\ \A tok \in AllTokens :
                /\ tok \in Tokenize(ingested[k].last.content) =>
                        k \in SearchMessages(messages, fts, tok)
                /\ (tok \in Tokenize(ingested[k].prevContent) /\ ~TokenInStore(tok)) =>
                        SearchMessages(messages, fts, tok) = {}

C1_Witness ==
    \E k \in DOMAIN ingested :
        /\ ingested[k].n = 2
        /\ ingested[k].prevContent = <<"a">>
        /\ ingested[k].last.content = <<"b">>
        /\ ~TokenInStore("a")

(***************************************************************************)
(* C2: last_message_time of a chat never moves backwards.                  *)
(***************************************************************************)
C2_NeverBackwards ==
    [][\A j \in DOMAIN chats :
          chats'[j].last_message_time >= chats[j].last_message_time]_vars

(***************************************************************************)
(* C3: the full-text index holds exactly one entry per messages row, with  *)
(* the tokens of its current content, and nothing else.                    *)
(***************************************************************************)
C3_IndexConsistent == fts = FtsRebuild(messages)

(***************************************************************************)
(* C5: no messages row has both empty text and an empty media descriptor.  *)
(***************************************************************************)
C5_NoEmptyRow ==
    \A k \in DOMAIN messages :
        ~(messages[k].content = <<>> /\ messages[k].media_type = "")

C5_Witness == droppedBy = {"live", "history"} /\ messages = <<>>

(***************************************************************************)
(* C4: in every step a chat's stored name stays the same or changes from   *)
(* an empty or placeholder value to a different non-empty value.           *)
(***************************************************************************)
IsPlaceholderName(jid, name) ==
    \/ name = ""
    \/ name = JidUser(jid)
    \/ name = jid
    \/ name = GroupPlaceholder(JidUser(jid))

C4_NameOnlyUpgraded ==
    [][\A j \in DOMAIN chats :
          /\ j \in DOMAIN chats'
          /\ \/ chats'[j].name = chats[j].name
             \/ IsPlaceholderName(j, chats[j].name) /\ chats'[j].name # ""]_vars

(***************************************************************************)
(* The store called directly: the LID mappings written by the groups       *)
(* command, statements on single messages rows, and Open on the existing   *)
(* database file.                                                          *)
(***************************************************************************)
Lids == {"L1", "L2"}
Phones == {"", "111", "222"}
LidNames == {"", "Alice", "Bob"}

\* the upsert as INSERT OR REPLACE: the incoming values are stored as they are
StoreLIDMappingReplace(lm, lid, phone, name, t) ==
    [l \in DOMAIN lm \cup {lid} |->
        IF l = lid THEN [phone |-> phone, name |-> name, updated_at |-> t] ELSE lm[l]]

\* DB.StoreLIDMapping at time t
StoreLIDMapping(lm, lid, phone, name, t) ==
    [l \in DOMAIN lm \cup {lid} |->
        IF l # lid THEN lm[l]
        ELSE IF lid \notin DOMAIN lm
        THEN [phone |-> phone, name |-> name, updated_at |-> t]
        ELSE [phone |-> IF phone # "" THEN phone ELSE lm[lid].phone,
              name |-> IF name # "" THEN name ELSE lm[lid].name,
              updated_at |-> t]]

\* CREATE TABLE IF NOT EXISTS on a store that has the table
CreateTableIfNotExists(rows) == rows

\* migrate without the rebuild of the index
OpenNoRebuild(db) ==
    [db EXCEPT !.chats = CreateTableIfNotExists(db.chats),
               !.messages = CreateTableIfNotExists(db.messages)]

\* Open on an initialised store: migrate, ending with the rebuild of the index
Open(db) ==
    [db EXCEPT !.chats = CreateTableIfNotExists(db.chats),
               !.messages = CreateTableIfNotExists(db.messages),
               !.fts = FtsRebuild(CreateTableIfNotExists(db.messages))]

\* runGroups stores the mapping of a participant
StoreLIDMappingCalled ==
    \E lid \in Lids, phone \in Phones, name \in LidNames :
        /\ lid_mappings' = StoreLIDMapping(lid_mappings, lid, phone, name, now)
        /\ lastCall' = [name |-> "StoreLIDMapping", lid |-> lid, phone |-> phone,
                        lname |-> name]
        /\ UNCHANGED <<chats, messages, fts, contacts, groups, syncComplete, ingested,
                       droppedBy>>

MessageUpdated ==
    \E key \in DOMAIN messages, content \in Contents \ {<<>>} :
        LET db == ExecUpdateMessage(Db(chats, messages, fts), key, content)
        IN  /\ messages' = db.messages
            /\ fts' = db.fts
            /\ lastCall' = [name |-> "UpdateMessage"]
            /\ UNCHANGED <<chats, lid_mappings, contacts, groups, syncComplete, ingested,
                           droppedBy>>

MessageDeleted ==
    \E key \in DOMAIN messages :
        LET db == ExecDeleteMessage(Db(chats, messages, fts), key)
        IN  /\ messages' = db.messages
            /\ fts' = db.fts
            /\ lastCall' = [name |-> "DeleteMessage"]
            /\ UNCHANGED <<chats, lid_mappings, contacts, groups, syncComplete, ingested,
                           droppedBy>>

Reopened ==
    /\ LET db == Open(Db(chats, messages, fts))
       IN  /\ chats' = db.chats
           /\ messages' = db.messages
           /\ fts' = db.fts
    /\ lid_mappings' = CreateTableIfNotExists(lid_mappings)
    /\ lastCall' = [name |-> "Open"]
    /\ UNCHANGED <<contacts, groups, syncComplete, ingested, droppedBy>>

\* the contact's text messages in the individual chat
TextMessages ==
    {LiveMessage(id, ContactJid, FALSE, 1, "ali", pl) :
        id \in MsgIds, pl \in {q \in Payloads : q.content # <<>>}}

InitStoreCalls == InitStore /\ InitNoDirectory /\ InitFollowing

NextStore ==
    \/ Deliver /\ StoreLIDMappingCalled /\ UNCHANGED <<live, handler, syncVars>>
    \/ Deliver /\ OnMessage(TextMessages) /\ lastCall' = [name |-> "handleMessage"]
               /\ UNCHANGED <<live, handler, syncVars>>
    \/ Deliver /\ MessageUpdated /\ UNCHANGED <<live, handler, syncVars>>
    \/ Deliver /\ MessageDeleted /\ UNCHANGED <<live, handler, syncVars>>
    \/ Reopened /\ UNCHANGED <<nEvents, live, handler, syncVars>>

SpecStore == InitStoreCalls /\ [][NextStore]_vars

(***************************************************************************)
(* C6: StoreLIDMapping on a stored mapping replaces the phone and the name *)
(* each only by a non-empty incoming value, so a field that is non-empty   *)
(* never becomes empty: ("", N2) on (P, N) leaves (P, N2).                 *)
(***************************************************************************)
C6_MergeKeepsNonEmpty ==
    [][(lastCall'.name = "StoreLIDMapping" /\ lastCall'.lid \in DOMAIN lid_mappings) =>
          LET old == lid_mappings[lastCall'.lid]
              new == lid_mappings'[lastCall'.lid]
              in == lastCall'
          IN  /\ new.phone # old.phone => (in.phone # "" /\ new.phone = in.phone)
              /\ new.name # old.name => (in.lname # "" /\ new.name = in.lname)
              /\ in.phone # "" => new.phone = in.phone
              /\ in.lname # "" => new.name = in.lname
              /\ old.phone # "" => new.phone # ""
              /\ old.name # "" => new.name # ""
              /\ \A l \in DOMAIN lid_mappings \ {in.lid} :
                    lid_mappings'[l] = lid_mappings[l]]_vars

C6_Witness ==
    /\ lastCall = [name |-> "StoreLIDMapping", lid |-> "L1", phone |-> "", lname |-> "Bob"]
    /\ "L1" \in DOMAIN lid_mappings
    /\ lid_mappings["L1"].phone = "111"
    /\ lid_mappings["L1"].name = "Bob"

(***************************************************************************)
(* handleMessage statement by statement.  The transport delivers a live    *)
(* message on one goroutine and history syncs and the offline-sync         *)
(* completion on another; the pool of one connection (Open) serialises     *)
(* their statements and nothing more, so the statements of handleMessage   *)
(* interleave with the other goroutine's handlers.  live holds the locals  *)
(* of the running handleMessage.                                           *)
(***************************************************************************)
liveStore == <<chats, messages, fts, ingested, droppedBy>>

\* lines 487-498: the filter and resolveSenderName
LiveReceive(M) ==
    /\ live.pc = "idle"
    /\ \E msg \in M :
          IF IsEmptyMessage(msg.content, msg.media.media_type)
          THEN /\ droppedBy' = droppedBy \cup {"live"}
               /\ UNCHANGED <<live, chats, messages, fts, ingested>>
          ELSE /\ live' = [pc |-> "shadowSelect", msg |-> msg,
                           senderName |-> resolveSenderName(chats, JidUser(msg.Sender),
                                                            msg.Sender, msg.PushName),
                           existing |-> QueryChatName(<<>>, msg.Sender), name |-> ""]
               /\ UNCHANGED liveStore
    /\ UNCHANGED <<lid_mappings, contacts, groups, syncComplete>>

\* lines 502-503: SELECT name FROM chats WHERE jid = the sender's
LiveShadowSelect ==
    /\ live.pc = "shadowSelect"
    /\ live' = [live EXCEPT !.pc = "shadowWrite",
                            !.existing = QueryChatName(chats, IndivJid(JidUser(live.msg.Sender)))]
    /\ UNCHANGED <<liveStore, lid_mappings, contacts, groups, syncComplete, nEvents>>

\* lines 504-513: the INSERT or the UPDATE of the sender's chat
LiveShadowWrite ==
    /\ live.pc = "shadowWrite"
    /\ chats' = ShadowChatStmt(chats, IndivJid(JidUser(live.msg.Sender)), live.existing)
    /\ live' = [live EXCEPT !.pc = "getChatName"]
    /\ UNCHANGED <<messages, fts, ingested, droppedBy, lid_mappings, contacts, groups,
                   syncComplete, nEvents>>

\* line 516: name := c.getChatName(...)
LiveGetChatName ==
    /\ live.pc = "getChatName"
    /\ live' = [live EXCEPT !.pc = "upsertChat",
                            !.name = getChatName(chats, live.msg.Chat, live.msg.Chat,
                                                 JidUser(live.msg.Sender))]
    /\ UNCHANGED <<liveStore, lid_mappings, contacts, groups, syncComplete, nEvents>>

\* lines 517-519: INSERT OR REPLACE INTO chats
LiveUpsertChat ==
    /\ live.pc = "upsertChat"
    /\ chats' = ExecUpsertChat(chats, live.msg.Chat, live.name, live.msg.Timestamp)
    /\ live' = [live EXCEPT !.pc = "insertMessage"]
    /\ UNCHANGED <<messages, fts, ingested, droppedBy, lid_mappings, contacts, groups,
                   syncComplete, nEvents>>

\* lines 521-527: INSERT OR REPLACE INTO messages
LiveInsertMessage ==
    /\ live.pc = "insertMessage"
    /\ LET msg == live.msg
           db == StoreMessage(Db(chats, messages, fts), <<msg.ID, msg.Chat>>,
                              Row(JidUser(msg.Sender), live.senderName, msg.content,
                                  msg.Timestamp, msg.IsFromMe, msg.media))
       IN  /\ messages' = db.messages
           /\ fts' = db.fts
           /\ ingested' = Recorded(ingested, db.stored, 1)
    /\ live' = LiveIdle
    /\ UNCHANGED <<chats, droppedBy, lid_mappings, contacts, groups, syncComplete, nEvents>>

\* the contact writes a text to the individual chat or to the group
ConcLiveMessages ==
    {LiveMessage(id, chat, FALSE, MaxTs, "ali", pl) :
        id \in MsgIds, chat \in ChatJids, pl \in {q \in Payloads : q.content = <<"a">>}}

\* history-sync batches that carry one text of the contact, or nothing
ConcHistorySyncs ==
    {hs \in HistorySyncs :
        \A i \in DOMAIN hs.Conversations[1].Messages :
            LET m == hs.Conversations[1].Messages[i]
            IN  m.text = <<"b">> /\ m.Timestamp = 1}

NextConc ==
    \/ Deliver /\ LiveReceive(ConcLiveMessages) /\ UNCHANGED <<lastCall, handler, syncVars>>
    \/ LiveShadowSelect /\ UNCHANGED <<lastCall, handler, syncVars>>
    \/ LiveShadowWrite /\ UNCHANGED <<lastCall, handler, syncVars>>
    \/ LiveGetChatName /\ UNCHANGED <<lastCall, handler, syncVars>>
    \/ LiveUpsertChat /\ UNCHANGED <<lastCall, handler, syncVars>>
    \/ LiveInsertMessage /\ UNCHANGED <<lastCall, handler, syncVars>>
    \/ Deliver /\ OnHistorySync(ConcHistorySyncs) /\ UNCHANGED <<lastCall, live, handler, syncVars>>
    \/ Deliver /\ OnOfflineSyncCompleted /\ UNCHANGED <<lastCall, live, handler, syncVars>>
    \/ DirectoryUpdate /\ UNCHANGED <<nEvents, lastCall, live, handler, syncVars>>

SpecConc == Init /\ [][NextConc]_vars

(***************************************************************************)
(* The sync scheduler: shouldAutoSync, maybeAutoSync,                      *)
(* maybeAutoSyncWithClient, performQuickSync and the sync command.  One    *)
(* command runs at a time; the clock counts hours, so the waits (30        *)
(* seconds, 2 minutes) end within the hour they began in or the next.      *)
(***************************************************************************)
MaxNow == 26

\* autoSyncThreshold = 24 * time.Hour
autoSyncThreshold == 24

\* DB.GetLastSyncTime: the time recorded in sync_state, the zero time if none
GetLastSyncTime(recorded) == [time |-> recorded, err |-> FALSE]

\* DB.SetLastSyncTime(t): the time that sync_state holds afterwards
SetLastSyncTime(recorded, t) == [time |-> t, err |-> FALSE]

\* shouldAutoSync with >= for >
shouldAutoSyncAtThreshold(noAuto, recorded, t) ==
    LET got == GetLastSyncTime(recorded)
    IN  IF noAuto THEN FALSE
        ELSE IF got.err THEN FALSE
        ELSE IF got.time = ZeroTime THEN TRUE
        ELSE t - got.time >= autoSyncThreshold

\* shouldAutoSync at time t
shouldAutoSync(noAuto, recorded, t) ==
    LET got == GetLastSyncTime(recorded)
    IN  IF noAuto THEN FALSE
        ELSE IF got.err THEN FALSE
        ELSE IF got.time = ZeroTime THEN TRUE
        ELSE t - got.time > autoSyncThreshold

\* whatsapp.New: fails when the session store cannot be opened
New(sess) == [err |-> sess = "broken"]

\* Client.IsAuthenticated: the session store holds a device identity
IsAuthenticated(sess) == sess = "paired"

\* performQuickSync that records the time only when the signal came
performQuickSyncOnSignal(ended, recorded, t) ==
    IF ended = "complete"
    THEN [how |-> ended, lastSync |-> SetLastSyncTime(recorded, t).time, err |-> FALSE]
    ELSE [how |-> ended, lastSync |-> recorded, err |-> FALSE]

\* performQuickSync once its select has ended (ended: "complete" or "timeout")
performQuickSync(ended, recorded, t) ==
    LET set == SetLastSyncTime(recorded, t)
    IN  IF set.err
        THEN [how |-> ended, lastSync |-> recorded, err |-> TRUE]
        ELSE [how |-> ended, lastSync |-> set.time, err |-> FALSE]

\* maybeAutoSync that treats missing credentials as WithConnection does
maybeAutoSyncStrict(noAuto, recorded, t, sess, connectOk) ==
    IF ~shouldAutoSync(noAuto, recorded, t)
    THEN [how |-> "notdue", err |-> FALSE, connects |-> 0, wait |-> FALSE]
    ELSE IF New(sess).err
    THEN [how |-> "newfail", err |-> TRUE, connects |-> 0, wait |-> FALSE]
    ELSE IF ~IsAuthenticated(sess)
    THEN [how |-> "unauth", err |-> TRUE, connects |-> 0, wait |-> FALSE]
    ELSE IF ~connectOk
    THEN [how |-> "connfail", err |-> TRUE, connects |-> 1, wait |-> FALSE]
    ELSE [how |-> "waiting", err |-> FALSE, connects |-> 1, wait |-> TRUE]

\* maybeAutoSync up to the call of performQuickSync
maybeAutoSync(noAuto, recorded, t, sess, connectOk) ==
    IF ~shouldAutoSync(noAuto, recorded, t)
    THEN [how |-> "notdue", err |-> FALSE, connects |-> 0, wait |-> FALSE]
    ELSE IF New(sess).err
    THEN [how |-> "newfail", err |-> TRUE, connects |-> 0, wait |-> FALSE]
    ELSE IF ~IsAuthenticated(sess)
    THEN [how |-> "unauth", err |-> FALSE, connects |-> 0, wait |-> FALSE]
    ELSE IF ~connectOk
    THEN [how |-> "connfail", err |-> TRUE, connects |-> 1, wait |-> FALSE]
    ELSE [how |-> "waiting", err |-> FALSE, connects |-> 1, wait |-> TRUE]

\* WithConnection and runSync up to Connect
connectOrFail(sess, connectOk) ==
    IF New(sess).err
    THEN [how |-> "newfail", err |-> TRUE, connects |-> 0, wait |-> FALSE]
    ELSE IF ~IsAuthenticated(sess)
    THEN [how |-> "unauth", err |-> TRUE, connects |-> 0, wait |-> FALSE]
    ELSE IF ~connectOk
    THEN [how |-> "connfail", err |-> TRUE, connects |-> 1, wait |-> FALSE]
    ELSE [how |-> "waiting", err |-> FALSE, connects |-> 1, wait |-> TRUE]

Outcome(r) == [how |-> r.how, err |-> r.err, connects |-> r.connects]

syncStore ==
    <<chats, messages, fts, lid_mappings, contacts, groups, ingested, droppedBy, nEvents,
      live, handler>>

\* maybeAutoSync that records the time of every attempt it begins
AutoSyncRecording ==
    /\ pc = "idle"
    /\ \E flag \in BOOLEAN, connectOk \in BOOLEAN :
          LET r == maybeAutoSync(flag, lastSync, now, session, connectOk)
          IN  /\ noAutoSync' = flag
              /\ outcome' = Outcome(r)
              /\ pc' = IF r.wait THEN "quickSync" ELSE "idle"
              /\ connected' = r.wait
              /\ syncComplete' = IF r.how \in {"notdue", "newfail"} THEN syncComplete ELSE 0
              /\ lastSync' = IF r.how = "notdue" THEN lastSync
                             ELSE SetLastSyncTime(lastSync, now).time
    /\ lastCall' = [name |-> "maybeAutoSync"]
    /\ UNCHANGED <<syncStore, now, session, cancelled>>

\* a WithDB command calls maybeAutoSync
AutoSync ==
    /\ pc = "idle"
    /\ \E flag \in BOOLEAN, connectOk \in BOOLEAN :
          LET r == maybeAutoSync(flag, lastSync, now, session, connectOk)
          IN  /\ noAutoSync' = flag
              /\ outcome' = Outcome(r)
              /\ pc' = IF r.wait THEN "quickSync" ELSE "idle"
              /\ connected' = r.wait
              /\ syncComplete' = IF r.how \in {"notdue", "newfail"} THEN syncComplete ELSE 0
    /\ lastCall' = [name |-> "maybeAutoSync"]
    /\ UNCHANGED <<syncStore, now, lastSync, session, cancelled>>

\* a command starts under WithConnection
WithConnection ==
    /\ pc = "idle"
    /\ \E flag \in BOOLEAN, connectOk \in BOOLEAN :
          LET r == connectOrFail(session, connectOk)
          IN  /\ noAutoSync' = flag
              /\ outcome' = Outcome(r)
              /\ pc' = IF r.wait THEN "inCommand" ELSE "idle"
              /\ connected' = r.wait
              /\ syncComplete' = IF r.how = "newfail" THEN syncComplete ELSE 0
    /\ lastCall' = [name |-> "WithConnection"]
    /\ UNCHANGED <<syncStore, now, lastSync, session, cancelled>>

\* the command calls maybeAutoSyncWithClient on its connection
AutoSyncWithClient ==
    /\ pc = "inCommand"
    /\ IF shouldAutoSync(noAutoSync, lastSync, now)
       THEN pc' = "quickSyncShared" /\ outcome' = [outcome EXCEPT !.how = "waiting"]
       ELSE pc' = pc /\ outcome' = [outcome EXCEPT !.how = "notdue"]
    /\ lastCall' = [name |-> "maybeAutoSyncWithClient"]
    /\ UNCHANGED <<syncStore, syncComplete, now, lastSync, noAutoSync, session, connected,
                   cancelled>>

\* the function given to WithConnection returns: the deferred Disconnect
CommandReturns ==
    /\ pc = "inCommand"
    /\ pc' = "idle"
    /\ connected' = FALSE
    /\ lastCall' = [name |-> "return"]
    /\ UNCHANGED <<syncStore, syncComplete, now, lastSync, noAutoSync, session, cancelled,
                   outcome>>

\* performQuickSync returns r to a caller that never disconnects
QuickSyncReturnsConnected(r) ==
    /\ lastSync' = r.lastSync
    /\ outcome' = [outcome EXCEPT !.how = r.how, !.err = r.err]
    /\ pc' = IF pc = "quickSync" THEN "idle" ELSE "inCommand"
    /\ connected' = connected
    /\ UNCHANGED <<syncStore, now, noAutoSync, session, cancelled>>

\* performQuickSync returns r: maybeAutoSync then runs its deferred
\* Disconnect, maybeAutoSyncWithClient hands r to the command
QuickSyncReturns(r) ==
    /\ lastSync' = r.lastSync
    /\ outcome' = [outcome EXCEPT !.how = r.how, !.err = r.err]
    /\ pc' = IF pc = "quickSync" THEN "idle" ELSE "inCommand"
    /\ connected' = (pc # "quickSync")
    /\ UNCHANGED <<syncStore, now, noAutoSync, session, cancelled>>

\* what follows the select of performQuickSync
QuickSyncEnds(ended) == QuickSyncReturns(performQuickSync(ended, lastSync, now))

QuickSyncComplete ==
    /\ pc \in {"quickSync", "quickSyncShared"}
    /\ syncComplete > 0
    /\ syncComplete' = syncComplete - 1
    /\ lastCall' = [name |-> "SyncComplete"]
    /\ QuickSyncEnds("complete")

QuickSyncTimeout ==
    /\ pc \in {"quickSync", "quickSyncShared"}
    /\ syncComplete' = syncComplete
    /\ lastCall' = [name |-> "timeout"]
    /\ QuickSyncEnds("timeout")

\* runSync up to its wait
SyncCommand ==
    /\ pc = "idle"
    /\ \E follow \in BOOLEAN, connectOk \in BOOLEAN :
          LET r == connectOrFail(session, connectOk)
          IN  /\ outcome' = Outcome(r)
              /\ pc' = IF ~r.wait THEN "idle" ELSE IF follow THEN "follow" ELSE "syncWait"
              /\ connected' = r.wait
              /\ syncComplete' = IF r.how = "newfail" THEN syncComplete ELSE 0
    /\ cancelled' = FALSE
    /\ lastCall' = [name |-> "runSync"]
    /\ UNCHANGED <<syncStore, now, lastSync, noAutoSync, session>>

\* runSync from the end of its wait: Disconnect, SetLastSyncTime
SyncEnds(ended) ==
    /\ connected' = FALSE
    /\ lastSync' = SetLastSyncTime(lastSync, now).time
    /\ outcome' = [outcome EXCEPT !.how = ended, !.err = FALSE]
    /\ pc' = "idle"
    /\ lastCall' = [name |-> "runSyncEnds"]
    /\ UNCHANGED <<syncStore, now, noAutoSync, session, cancelled>>

SyncWaitCancelled ==
    /\ pc \in {"syncWait", "follow"}
    /\ cancelled
    /\ syncComplete' = syncComplete
    /\ SyncEnds("interrupted")

SyncWaitComplete ==
    /\ pc = "syncWait"
    /\ syncComplete > 0
    /\ syncComplete' = syncComplete - 1
    /\ SyncEnds("complete")

SyncWaitTimeout ==
    /\ pc = "syncWait"
    /\ syncComplete' = syncComplete
    /\ SyncEnds("timeout")

\* SIGINT or SIGTERM reaches runSync: its goroutine cancels ctx
InterruptCancels ==
    /\ pc \in {"syncWait", "follow"}
    /\ ~cancelled
    /\ cancelled' = TRUE
    /\ lastCall' = [name |-> "signal"]
    /\ UNCHANGED <<syncStore, syncComplete, now, lastSync, noAutoSync, session, connected,
                   pc, outcome>>

\* SIGINT or SIGTERM reaches a command that has not called signal.Notify:
\* the process ends there
InterruptKills ==
    /\ pc \in {"quickSync", "quickSyncShared", "inCommand"}
    /\ pc' = "idle"
    /\ connected' = FALSE
    /\ outcome' = [outcome EXCEPT !.how = "interrupted", !.err = TRUE]
    /\ lastCall' = [name |-> "signal"]
    /\ UNCHANGED <<syncStore, syncComplete, now, lastSync, noAutoSync, session, cancelled>>

\* the transport reports the end of the offline sync to the connected client
Completion ==
    /\ connected
    /\ OnOfflineSyncCompleted
    /\ lastCall' = [name |-> "OfflineSyncCompleted", full |-> syncComplete >= 1]
    /\ UNCHANGED <<nEvents, live, handler, syncVars>>

\* history-sync batches without conversations' messages
EmptyHistorySyncs == {hs \in HistorySyncs : hs.Conversations[1].Messages = <<>>}

\* the transport delivers such a batch to the connected client
HistoryCompletion ==
    /\ connected
    /\ OnHistorySync(EmptyHistorySyncs)
    /\ lastCall' = [name |-> "HistorySync", full |-> syncComplete >= 1]
    /\ UNCHANGED <<nEvents, live, handler, syncVars>>

Tick ==
    /\ now < MaxNow
    /\ now' = now + 1
    /\ lastCall' = [name |-> "Tick"]
    /\ UNCHANGED <<ingestVars, live, handler, lastSync, noAutoSync, session, connected, cancelled,
                   pc, outcome>>

InitSync ==
    /\ InitStore
    /\ InitNoDirectory
    /\ lastCall = NoCall
    /\ live = LiveIdle
    /\ handler = HandlerIdle
    /\ now = 1
    /\ lastSync = ZeroTime
    /\ noAutoSync = FALSE
    /\ session \in {"broken", "empty", "paired"}
    /\ connected = FALSE
    /\ cancelled = FALSE
    /\ pc = "idle"
    /\ outcome = NoOutcome

NextSync ==
    \/ AutoSync
    \/ WithConnection
    \/ AutoSyncWithClient
    \/ CommandReturns
    \/ QuickSyncComplete
    \/ QuickSyncTimeout
    \/ SyncCommand
    \/ SyncWaitCancelled
    \/ SyncWaitComplete
    \/ SyncWaitTimeout
    \/ InterruptCancels
    \/ InterruptKills
    \/ Completion
    \/ HistoryCompletion
    \/ Tick

SpecSync == InitSync /\ [][NextSync]_vars

(***************************************************************************)
(* C7: an auto-sync invocation goes ahead exactly when the opt-out is not  *)
(* set and either no last sync time is recorded or strictly more than 24   *)
(* hours have passed since it.                                             *)
(***************************************************************************)
C7_DueExactly ==
    [][lastCall'.name \in {"maybeAutoSync", "maybeAutoSyncWithClient"} =>
          ((outcome'.how # "notdue") <=>
              (~noAutoSync' /\ (lastSync = ZeroTime \/ now - lastSync > 24)))]_vars

C7_Witness ==
    /\ lastCall.name = "maybeAutoSync"
    /\ outcome.how = "notdue"
    /\ ~noAutoSync
    /\ lastSync # ZeroTime
    /\ now - lastSync = 24

(***************************************************************************)
(* C8: when the wait of an auto-sync ends by the completion signal or by   *)
(* the timeout, the last sync time becomes the current time, and no        *)
(* auto-sync is due in the 24 hours that follow.                           *)
(***************************************************************************)
C8_AttemptRecorded ==
    [][(pc \in {"quickSync", "quickSyncShared"} /\ lastCall'.name \in {"SyncComplete", "timeout"}) =>
          /\ lastSync' = now'
          /\ \A t \in now'..(now' + 24) : ~shouldAutoSync(FALSE, lastSync', t)]_vars

C8_Witness ==
    /\ lastCall.name = "timeout"
    /\ outcome.how = "timeout"
    /\ pc = "idle"
    /\ lastSync = now
    /\ now > 1

(***************************************************************************)
(* C9: maybeAutoSync, due, with no connection and no stored credentials,   *)
(* returns no error, opens no connection and does not wait.                *)
(***************************************************************************)
C9_SilentSkip ==
    [][(/\ lastCall'.name = "maybeAutoSync"
        /\ shouldAutoSync(noAutoSync', lastSync, now)
        /\ ~connected
        /\ session = "empty") =>
          /\ ~outcome'.err
          /\ outcome'.connects = 0
          /\ ~connected'
          /\ pc' = "idle"
          /\ lastSync' = lastSync]_vars

C9_Witness ==
    /\ lastCall.name = "maybeAutoSync"
    /\ session = "empty"
    /\ outcome.how = "unauth"
    /\ ~noAutoSync
    /\ pc = "idle"

(***************************************************************************)
(* C10: a wait for the completion signal that ends by an interrupt still   *)
(* sets the last sync time to the current time.                            *)
(***************************************************************************)
C10_InterruptedWaitRecorded ==
    [][(/\ pc \in {"quickSync", "quickSyncShared", "syncWait"}
        /\ pc' \notin {"quickSync", "quickSyncShared", "syncWait"}
        /\ outcome'.how = "interrupted") =>
          lastSync' = now']_vars

(***************************************************************************)
(* C11: the event handler is never blocked signalling completion, however  *)
(* many completion events arrive and whether or not a command waits: a     *)
(* connected client can always take the next completion event, and at most *)
(* one notification is pending.                                            *)
(***************************************************************************)
C11_SignalNeverBlocks ==
    /\ syncComplete <= 1
    /\ connected => (ENABLED Completion /\ ENABLED HistoryCompletion)

C11_Witness ==
    /\ lastCall.name \in {"OfflineSyncCompleted", "HistorySync"}
    /\ lastCall.full
    /\ syncComplete = 1
    /\ pc = "inCommand"

(***************************************************************************)
(* C12: a completion signalled while no command waits is lost, so a wait   *)
(* starts with no notification pending.                                    *)
(***************************************************************************)
C12_WaitStartsEmpty ==
    [][(/\ pc \notin {"quickSync", "quickSyncShared", "syncWait"}
        /\ pc' \in {"quickSync", "quickSyncShared", "syncWait"}) =>
          syncComplete' = 0]_vars

(***************************************************************************)
(* The registered event handler call by call, next to a sync command that  *)
(* waits: what the handler of registerHandlers runs for an event, in       *)
(* order.  The directory changes between events.                           *)
(***************************************************************************)
IsCompletionEvent(evt) ==
    \/ evt.kind = "OfflineSyncCompleted"
    \/ evt.kind = "HistorySync" /\ evt.hs.Progress >= CompleteProgress

\* the handler with the notification sent before the backfill
HandlerStepsSignalFirst(evt) ==
    CASE evt.kind = "Message" -> <<"handleMessage">>
      [] evt.kind = "HistorySync" ->
            IF evt.hs.Progress >= CompleteProgress
            THEN <<"handleHistorySync", "signal", "backfillChatNames">>
            ELSE <<"handleHistorySync">>
      [] evt.kind = "OfflineSyncCompleted" -> <<"signal", "backfillChatNames">>
      [] OTHER -> <<>>

\* the switch of the handler: the calls it makes for evt
HandlerSteps(evt) ==
    CASE evt.kind = "Message" -> <<"handleMessage">>
      [] evt.kind = "HistorySync" ->
            IF evt.hs.Progress >= CompleteProgress
            THEN <<"handleHistorySync", "backfillChatNames", "signal">>
            ELSE <<"handleHistorySync">>
      [] evt.kind = "OfflineSyncCompleted" -> <<"backfillChatNames", "signal">>
      [] OTHER -> <<>>

\* texts of the contact and of the account itself, live and in history-sync
\* batches, history messages of the contact without a timestamp (empty, a
\* text, an image), and the events that carry no message
NotifyEvents ==
    {[kind |-> "Message", msg |-> m] :
        m \in ConcLiveMessages
                \cup {LiveMessage(id, chat, TRUE, MaxTs, "", [content |-> <<"a">>, media |-> NoMedia]) :
                        id \in MsgIds, chat \in ChatJids}}
        \cup {[kind |-> "HistorySync", hs |-> hs] :
                hs \in ConcHistorySyncs
                         \cup {HistorySync(chat, <<HistMsg(chat, id, TRUE, 1,
                                                     [content |-> <<"b">>, media |-> NoMedia])>>, p) :
                                 chat \in ChatJids, id \in MsgIds, p \in Progresses}
                         \cup {HistorySync(chat, <<HistMsg(chat, id, FALSE, 0, pl)>>, p) :
                                 chat \in ChatJids, id \in MsgIds, p \in Progresses,
                                 pl \in {q \in Payloads : q.content # <<"a">>}}}
        \cup {[kind |-> "OfflineSyncCompleted"], [kind |-> "Connected"], [kind |-> "LoggedOut"]}

\* the handler is called with an event
Dispatch(E) ==
    /\ connected
    /\ handler.steps = <<>>
    /\ \E evt \in E : handler' = IF HandlerSteps(evt) = <<>> THEN HandlerIdle
                                 ELSE [evt |-> evt, steps |-> HandlerSteps(evt)]
    /\ UNCHANGED <<chats, messages, fts, ingested, droppedBy, lid_mappings, contacts, groups,
                   syncComplete>>

Running(step) == connected /\ handler.steps # <<>> /\ Head(handler.steps) = step

\* the handler goes on to its next call, or returns
Advance ==
    handler' = IF Len(handler.steps) = 1 THEN HandlerIdle
               ELSE [handler EXCEPT !.steps = Tail(@)]

StepHandleMessage ==
    /\ Running("handleMessage")
    /\ Commit(handleMessage(Db(chats, messages, fts), handler.evt.msg), "live")
    /\ Advance
    /\ UNCHANGED <<lid_mappings, contacts, groups, syncComplete, nEvents>>

StepHandleHistorySync ==
    /\ Running("handleHistorySync")
    /\ Commit(handleHistorySync(Db(chats, messages, fts), handler.evt.hs), "history")
    /\ Advance
    /\ UNCHANGED <<lid_mappings, contacts, groups, syncComplete, nEvents>>

StepBackfill ==
    /\ Running("backfillChatNames")
    /\ chats' = backfillChatNames(chats)
    /\ Advance
    /\ UNCHANGED <<messages, fts, ingested, droppedBy, lid_mappings, contacts, groups,
                   syncComplete, nEvents>>

StepSignal ==
    /\ Running("signal")
    /\ syncComplete' = SignalComplete(syncComplete)
    /\ Advance
    /\ UNCHANGED <<chats, messages, fts, ingested, droppedBy, lid_mappings, contacts, groups,
                   nEvents>>

\* the sync command has connected and waits (runSync, one-time sync)
InitNotify ==
    /\ InitStore
    /\ InitDirectory
    /\ lastCall = NoCall
    /\ live = LiveIdle
    /\ handler = HandlerIdle
    /\ now = 1
    /\ lastSync = ZeroTime
    /\ noAutoSync = FALSE
    /\ session = "paired"
    /\ connected = TRUE
    /\ cancelled = FALSE
    /\ pc = "syncWait"
    /\ outcome = [how |-> "waiting", err |-> FALSE, connects |-> 1]

NextNotify ==
    \/ Deliver /\ Dispatch(NotifyEvents) /\ UNCHANGED <<lastCall, live, syncVars>>
    \/ StepHandleMessage /\ UNCHANGED <<lastCall, live, syncVars>>
    \/ StepHandleHistorySync /\ UNCHANGED <<lastCall, live, syncVars>>
    \/ StepBackfill /\ UNCHANGED <<lastCall, live, syncVars>>
    \/ StepSignal /\ UNCHANGED <<lastCall, live, syncVars>>
    \/ handler.steps = <<>> /\ DirectoryUpdate
                            /\ UNCHANGED <<nEvents, lastCall, live, handler, syncVars>>
    \/ SyncWaitComplete
    \/ SyncWaitTimeout

SpecNotify == InitNotify /\ [][NextNotify]_vars

(***************************************************************************)
(* C13: the handler signals completion for a history sync at progress 100  *)
(* and for an offline-sync completion and for no other event, and when it  *)
(* sends the notification the messages of the event's batch are stored and *)
(* the backfill pass has left nothing to rename; a waiting command         *)
(* observes completion only once such a notification has been sent.        *)
(***************************************************************************)
BatchOf(evt) ==
    IF evt.kind = "HistorySync"
    THEN {[key |-> <<m.ID, c.ID>>, m |-> m] :
             c \in {evt.hs.Conversations[i] : i \in DOMAIN evt.hs.Conversations},
             m \in {x \in UNION {{c2.Messages[j] : j \in DOMAIN c2.Messages} :
                                   c2 \in {evt.hs.Conversations[i] :
                                             i \in DOMAIN evt.hs.Conversations}} :
                        x.Timestamp # 0 /\ ~(x.text = <<>> /\ x.media.media_type = "")}}
    ELSE {}

BatchStored(evt) ==
    \A b \in BatchOf(evt) :
        /\ b.key \in DOMAIN messages
        /\ messages[b.key].content = b.m.text
        /\ messages[b.key].timestamp = b.m.Timestamp

DirectoryHoldsName(jid) == JidServer(jid) # "g.us" /\ GetContact(jid) # NoContact

ShadowNamed(ch, jid) == jid \in DOMAIN ch /\ ch[jid].name # ""

HandlerReturnsFrom(step) == Running(step) /\ handler' # handler

HistoryMsg(evt) == evt.hs.Conversations[1].Messages[1]

HistorySenderJid(evt) == IndivJid(HistSender(evt.hs.Conversations[1].ID, HistoryMsg(evt)))

NamesKept ==
    \A j \in DOMAIN chats : chats[j].name # "" => ShadowNamed(chats', j)

DefaultSampleRate == 48000
MinDuration == 1
MaxDuration == 300
BytesPerSecond == 2000

\* the page loop: the last non-zero granule position and the first head block
RECURSIVE ScanPages(_, _, _)
ScanPages(pages, i, acc) ==
    IF i > Len(pages) THEN acc
    ELSE LET pg == pages[i]
             a1 == IF ~acc.foundHead /\ pg.seq <= 1 /\ pg.head = "full"
                   THEN [acc EXCEPT !.preSkip = pg.preSkip, !.sampleRate = pg.sampleRate,
                                    !.foundHead = TRUE]
                   ELSE acc
             a2 == IF pg.granule # 0 THEN [a1 EXCEPT !.lastGranule = pg.granule] ELSE a1
         IN  ScanPages(pages, i + 1, a2)

Scan(data) ==
    ScanPages(data.pages, 1,
              [lastGranule |-> 0, sampleRate |-> DefaultSampleRate, preSkip |-> 0,
               foundHead |-> FALSE])

\* math.Ceil of a quotient of non-negative numbers
CeilDiv(a, b) == (a + b - 1) \div b

\* lastGranule-uint64(preSkip) has wrapped to 2^64 - (preSkip - lastGranule),
\* which float64 holds as 2^64 for a pre-skip below 1024, and the quotient
\* is beyond uint32: the conversion is implementation-dependent.  amd64
\* keeps the low 32 bits of the truncated quotient; arm64 saturates (held
\* here as the largest integer, on the same side of the clamp).
Uint32OfWrapped(sampleRate) ==
    {CASE sampleRate = 48000 -> 2084490795
       [] sampleRate = 16000 -> 1958505087
       [] OTHER -> 2147483647,
     2147483647}

\* the duration before the clamp, every outcome
RawDurations(data) ==
    LET sc == Scan(data)
    IN  IF sc.lastGranule > 0
        THEN IF sc.lastGranule >= sc.preSkip
             THEN {CeilDiv(sc.lastGranule - sc.preSkip, sc.sampleRate)}
             ELSE Uint32OfWrapped(sc.sampleRate)
        ELSE {data.len \div BytesPerSecond}

ClampDuration(d) ==
    IF d < MinDuration THEN MinDuration
    ELSE IF d > MaxDuration THEN MaxDuration
    ELSE d

\* AnalyzeOggOpus: the results it can return
AnalyzeOggOpus(data) ==
    IF data.len < 4 \/ ~data.oggS
    THEN {[duration |-> 0, err |-> TRUE]}
    ELSE {[duration |-> ClampDuration(d), err |-> FALSE] : d \in RawDurations(data)}

\* buffers of up to three pages: a head page (complete or cut, with or
\* without pre-skip), an audio page, a last page with granule position 0
OggBuffers ==
    LET page(g, sq, h, sk, r) ==
            [granule |-> g, seq |-> sq, head |-> h, preSkip |-> sk, sampleRate |-> r]
        heads == {page(0, 0, "full", sk, r) : sk \in {0, 312}, r \in {16000, 48000}}
                    \cup {page(0, 0, "cut", 312, 16000)}
        audio == {page(g, 2, "none", 0, 0) :
                    g \in {0, 1, 311, 312, 313, 48312, 48313, 14400312, 14400313, 20000000}}
    IN  {[len |-> n, oggS |-> sig, pages |-> ps] :
            n \in {3, 4, 1999, 2000, 4100, 600000, 700000},
            sig \in BOOLEAN,
            ps \in {<<>>} \cup {<<h>> : h \in heads}
                     \cup {<<a>> : a \in audio}
                     \cup {<<h, a>> : h \in heads, a \in audio}
                     \cup {<<h, a, page(0, 3, "none", 0, 0)>> : h \in heads, a \in audio}}

\* a voice note is analysed
Analyze ==
    /\ lastCall = NoCall
    /\ \E data \in OggBuffers :
          \E r \in AnalyzeOggOpus(data) :
             lastCall' = [name |-> "AnalyzeOggOpus", data |-> data, result |-> r]
    /\ UNCHANGED <<ingestVars, live, handler, syncVars>>

SpecOgg == InitStoreCalls /\ [][Analyze]_vars

(***************************************************************************)
(* C15: for a buffer that starts with the Ogg signature, with G the last   *)
(* non-zero granule position, S the pre-skip and R the sample rate, the    *)
(* duration is ceil((G - S) / R) clamped to [1, 300], which is 1 when      *)
(* G < S; with no non-zero granule it is the byte length divided by 2000,  *)
(* rounded down, clamped to [1, 300].                                      *)
(***************************************************************************)
C15_OggDuration ==
    (lastCall.name = "AnalyzeOggOpus" /\ lastCall.data.oggS /\ lastCall.data.len >= 4) =>
        LET sc == Scan(lastCall.data)
            G == sc.lastGranule
            S == sc.preSkip
            R == sc.sampleRate
        IN  /\ ~lastCall.result.err
            /\ lastCall.result.duration =
                  IF G # 0
                  THEN IF G < S THEN 1 ELSE ClampDuration(CeilDiv(G - S, R))
                  ELSE ClampDuration(lastCall.data.len \div BytesPerSecond)

(***************************************************************************)
(* C16: Open on an initialised store leaves the rows of chats, messages    *)
(* and lid_mappings as they are, returns with an index that holds exactly  *)
(* the content of the messages rows, and a second Open changes nothing.    *)
(***************************************************************************)
IndexHolds(f, msgs) ==
    /\ \A k \in DOMAIN msgs :
          /\ msgs[k].rowid \in f.docsize
          /\ \A t \in Tokenize(msgs[k].content) : <<msgs[k].rowid, t>> \in f.postings
    /\ \A r \in f.docsize : \E k \in DOMAIN msgs : msgs[k].rowid = r
    /\ \A q \in f.postings :
          \E k \in DOMAIN msgs : msgs[k].rowid = q[1] /\ q[2] \in Tokenize(msgs[k].content)

C16_OpenIdempotent ==
    [][lastCall'.name = "Open" =>
          /\ chats' = chats
          /\ messages' = messages
          /\ lid_mappings' = lid_mappings
          /\ IndexHolds(fts', messages')
          /\ LET again == Open(Db(chats', messages', fts'))
             IN  /\ again.chats = chats'
                 /\ again.messages = messages'
                 /\ again.fts = fts']_vars

\* Open has returned on a store whose index the second write of a key had left stale
C16_Witness ==
    /\ lastCall.name = "Open"
    /\ \E k \in DOMAIN ingested :
          ingested[k].n = 2 /\ ingested[k].prevContent # ingested[k].last.content
    /\ IndexHolds(fts, messages)

(***************************************************************************)
(* Listing and search (queries.go).  A time bound is a string; the store   *)
(* parses it with time.Parse(time.RFC3339, s).  Timestamps are seconds     *)
(* after the epoch.                                                        *)
(***************************************************************************)
\* time.Parse(time.RFC3339, s): a date and a time with a zone, or an error
ParseRFC3339(str) ==
    CASE str = "1970-01-01T00:00:01Z" -> [err |-> FALSE, t |-> 1]
      [] str = "1970-01-01T00:00:02Z" -> [err |-> FALSE, t |-> 2]
      [] OTHER -> [err |-> TRUE, t |-> 0]

\* a bound applied without looking at the parse error
TimeFiltersUnchecked(opts, row) ==
    /\ opts.After # "" => row.timestamp >= ParseRFC3339(opts.After).t
    /\ opts.Before # "" => row.timestamp <= ParseRFC3339(opts.Before).t

\* the "AND m.timestamp >= ?" / "AND m.timestamp <= ?" the query gets
TimeFilters(opts, row) ==
    /\ (opts.After # "" /\ ~ParseRFC3339(opts.After).err) =>
          row.timestamp >= ParseRFC3339(opts.After).t
    /\ (opts.Before # "" /\ ~ParseRFC3339(opts.Before).err) =>
          row.timestamp <= ParseRFC3339(opts.Before).t

\* the chat, sender and type conditions the query gets
OtherFilters(opts, key, row) ==
    /\ opts.ChatJID # "" => key[2] = opts.ChatJID
    /\ opts.FromJID # "" => row.sender = opts.FromJID
    /\ CASE opts.Type = "text" -> row.media_type = ""
         [] opts.Type \in {"image", "video", "audio", "document", "sticker"} ->
               row.media_type = opts.Type
         [] OTHER -> TRUE

\* ORDER BY m.timestamp DESC (rows of one timestamp in rowid order) with
\* LIMIT n when limit > 0; n is Cardinality(keys) at the call
RECURSIVE OrderLimit(_, _, _, _)
OrderLimit(msgs, keys, limit, n) ==
    IF keys = {} \/ n = 0 \/ (limit > 0 /\ Cardinality(keys) + limit <= n) THEN <<>>
    ELSE LET first == CHOOSE k \in keys :
                         \A j \in keys :
                            \/ msgs[k].timestamp > msgs[j].timestamp
                            \/ /\ msgs[k].timestamp = msgs[j].timestamp
                               /\ msgs[k].rowid <= msgs[j].rowid
         IN  <<first>> \o OrderLimit(msgs, keys \ {first}, limit, n)

\* DB.ListMessages (FromJID is not among its options: "")
ListMessages(msgs, opts) ==
    LET keys == {k \in DOMAIN msgs :
                    OtherFilters(opts, k, msgs[k]) /\ TimeFilters(opts, msgs[k])}
    IN  [rows |-> OrderLimit(msgs, keys, opts.Limit, Cardinality(keys)), err |-> FALSE]

\* DB.SearchMessages with its options
SearchMessagesOpts(msgs, f, opts) ==
    LET keys == {k \in SearchMessages(msgs, f, opts.Query) :
                    OtherFilters(opts, k, msgs[k]) /\ TimeFilters(opts, msgs[k])}
    IN  [rows |-> OrderLimit(msgs, keys, opts.Limit, Cardinality(keys)), err |-> FALSE]

\* the options of a call: a bound is absent, a time, or text that is no time
QueryOptions ==
    LET TimeStrings == {"", "1970-01-01T00:00:02Z", "yesterday", "1970-01-01"}
    IN  [Query : {"a"}, ChatJID : {"", ContactJid}, FromJID : {""},
         After : TimeStrings, Before : TimeStrings, Type : {"", "text", "photo"},
         Limit : {0, 1}]

\* the contact's messages: a text or an image in either chat, a second text
\* in the individual chat
QueryMessages ==
    {LiveMessage("M1", chat, FALSE, t, "ali", pl) :
        chat \in ChatJids, t \in 1..MaxTs,
        pl \in {q \in Payloads : q.content = <<"a">> \/ q.media.media_type # ""}}
      \cup {LiveMessage("M2", ContactJid, FALSE, t, "ali", [content |-> <<"a">>, media |-> NoMedia]) :
               t \in 1..MaxTs}

\* the messages command lists a chat
ListMessagesCalled ==
    /\ messages # <<>>
    /\ \E opts \in {o \in QueryOptions : o.ChatJID # "" /\ o.FromJID = ""} :
          lastCall' = [name |-> "ListMessages", opts |-> opts,
                       result |-> ListMessages(messages, opts)]
    /\ UNCHANGED <<ingestVars, live, handler, syncVars>>

\* the search command
SearchMessagesCalled ==
    /\ messages # <<>>
    /\ \E opts \in QueryOptions :
          lastCall' = [name |-> "SearchMessages", opts |-> opts,
                       result |-> SearchMessagesOpts(messages, fts, opts)]
    /\ UNCHANGED <<ingestVars, live, handler, syncVars>>

NextQuery ==
    \/ /\ lastCall = NoCall
       /\ Deliver /\ OnMessage(QueryMessages)
       /\ UNCHANGED <<lastCall, live, handler, syncVars>>
    \/ lastCall = NoCall /\ ListMessagesCalled
    \/ lastCall = NoCall /\ SearchMessagesCalled

SpecQuery == InitStoreCalls /\ [][NextQuery]_vars

(***************************************************************************)
(* C17: a listing or a search whose 'after' or 'before' bound does not     *)
(* parse as RFC 3339 returns, without an error, exactly the rows the same  *)
(* call returns without that bound; the chat, sender and type filters and  *)
(* the other bound still apply to them.                                    *)
(***************************************************************************)
Unparseable(str) == str \in {"yesterday", "1970-01-01"}

WithoutUnparseable(opts) ==
    [opts EXCEPT !.After = IF Unparseable(@) THEN "" ELSE @,
                 !.Before = IF Unparseable(@) THEN "" ELSE @]

RowsOf(result) == {result.rows[i] : i \in DOMAIN result.rows}

C17_UnparseableBoundIgnored ==
    (/\ lastCall.name \in {"ListMessages", "SearchMessages"}
     /\ Unparseable(lastCall.opts.After) \/ Unparseable(lastCall.opts.Before)) =>
        LET opts == lastCall.opts
            plain == WithoutUnparseable(opts)
        IN  /\ ~lastCall.result.err
            /\ lastCall.result =
                  IF lastCall.name = "ListMessages"
                  THEN ListMessages(messages, plain)
                  ELSE SearchMessagesOpts(messages, fts, plain)
            /\ \A k \in RowsOf(lastCall.result) :
                  /\ k[2] = opts.ChatJID \/ opts.ChatJID = ""
                  /\ opts.Type = "text" => messages[k].media_type = ""
                  /\ opts.After = "1970-01-01T00:00:02Z" => messages[k].timestamp >= 2
                  /\ opts.Before = "1970-01-01T00:00:02Z" => messages[k].timestamp <= 2

\* a bound that does not parse next to a filter that holds rows back, and rows returned
C17_Witness ==
    /\ lastCall.name = "SearchMessages"
    /\ Unparseable(lastCall.opts.After)
    /\ lastCall.opts.Before = "1970-01-01T00:00:02Z"
    /\ lastCall.opts.Limit = 0
    /\ RowsOf(lastCall.result) # {}
    /\ RowsOf(lastCall.result) # SearchMessages(messages, fts, "a")

(***************************************************************************)
(* Sending (messaging.go): replies, forwards and reactions look the        *)
(* referenced message up in the store before anything is handed to the     *)
(* transport.  A result is [err, sends, uploads]: whether the call         *)
(* returned an error, and how many times it called the transport's         *)
(* SendMessage and Upload; the transport and the file system may fail.     *)
(***************************************************************************)
Recipients == {"111", ContactJid, GroupJid}

\* parseRecipient: a JID as it is, a phone number as phone@s.whatsapp.net
parseRecipient(recipient) ==
    IF recipient \in AllJids THEN recipient ELSE IndivJid(recipient)

SendFailed(sends, uploads) == [err |-> TRUE, sends |-> sends, uploads |-> uploads]

\* c.WA.SendMessage: the message is handed to the transport, which accepts it or not
WASendMessage(uploads) ==
    {[err |-> FALSE, sends |-> 1, uploads |-> uploads], SendFailed(1, uploads)}

\* a quoted message that is not found is left out of the reply
buildQuotedMessageLenient(msgs, messageID, chatJID) ==
    IF <<messageID, chatJID>> \in DOMAIN msgs
    THEN [err |-> FALSE, StanzaID |-> messageID]
    ELSE [err |-> FALSE, StanzaID |-> ""]

\* buildQuotedMessage: SELECT ... FROM messages WHERE id = ? AND chat_jid = ?
buildQuotedMessage(msgs, messageID, chatJID) ==
    IF <<messageID, chatJID>> \in DOMAIN msgs
    THEN [err |-> FALSE, StanzaID |-> messageID]
    ELSE [err |-> TRUE, StanzaID |-> ""]

SendText(msgs, recipient, replyToMessageID) ==
    IF ~connected THEN {SendFailed(0, 0)}
    ELSE IF replyToMessageID # ""
            /\ buildQuotedMessage(msgs, replyToMessageID, parseRecipient(recipient)).err
    THEN {SendFailed(0, 0)}
    ELSE WASendMessage(0)

\* SendMedia: the file is read and uploaded before the quoted message is looked up
SendMedia(msgs, recipient, replyToMessageID) ==
    IF ~connected THEN {SendFailed(0, 0)}
    ELSE {SendFailed(0, 0), SendFailed(0, 1)}
            \cup IF replyToMessageID # ""
                    /\ buildQuotedMessage(msgs, replyToMessageID, parseRecipient(recipient)).err
                 THEN {SendFailed(0, 1)}
                 ELSE WASendMessage(1)

\* ForwardMessage: texts only
ForwardMessage(msgs, recipient, messageID, fromChatJID) ==
    IF ~connected THEN {SendFailed(0, 0)}
    ELSE IF <<messageID, fromChatJID>> \notin DOMAIN msgs THEN {SendFailed(0, 0)}
    ELSE IF msgs[<<messageID, fromChatJID>>].media_type # "" THEN {SendFailed(0, 0)}
    ELSE WASendMessage(0)

\* SendReaction: the row is looked up under the chat as it was given
SendReaction(msgs, chatJID, messageID) ==
    IF ~connected THEN {SendFailed(0, 0)}
    ELSE IF <<messageID, chatJID>> \notin DOMAIN msgs THEN {SendFailed(0, 0)}
    ELSE WASendMessage(0)

\* the send command with --reply-to, with or without a file
ReplyCalled ==
    /\ \E recipient \in Recipients, id \in {"", "M1", "M2"}, file \in BOOLEAN :
          \E r \in IF file THEN SendMedia(messages, recipient, id)
                           ELSE SendText(messages, recipient, id) :
             lastCall' = [name |-> "reply", chat |-> recipient, id |-> id, file |-> file,
                          result |-> r]
    /\ UNCHANGED <<ingestVars, live, handler, syncVars>>

\* the forward command
ForwardCalled ==
    /\ \E recipient \in Recipients, id \in {"M1", "M2"}, from \in Recipients :
          \E r \in ForwardMessage(messages, recipient, id, from) :
             lastCall' = [name |-> "forward", chat |-> from, id |-> id, to |-> recipient,
                          result |-> r]
    /\ UNCHANGED <<ingestVars, live, handler, syncVars>>

\* the react command
ReactionCalled ==
    /\ \E chat \in Recipients, id \in {"M1", "M2"} :
          \E r \in SendReaction(messages, chat, id) :
             lastCall' = [name |-> "reaction", chat |-> chat, id |-> id, result |-> r]
    /\ UNCHANGED <<ingestVars, live, handler, syncVars>>

NextSend ==
    \/ /\ lastCall = NoCall
       /\ Deliver /\ OnMessage(QueryMessages)
       /\ UNCHANGED <<lastCall, live, handler, syncVars>>
    \/ lastCall = NoCall /\ ReplyCalled
    \/ lastCall = NoCall /\ ForwardCalled
    \/ lastCall = NoCall /\ ReactionCalled

SpecSend == InitStoreCalls /\ [][NextSend]_vars

(***************************************************************************)
(* C18: a reply, a forward or a reaction that references a message id and  *)
(* chat with no row in the store returns an error, and SendMessage is not  *)
(* called for it.                                                          *)
(***************************************************************************)
ReferencesAbsent ==
    /\ lastCall.name \in {"reply", "forward", "reaction"}
    /\ lastCall.id # ""
    /\ <<lastCall.id, parseRecipient(lastCall.chat)>> \notin DOMAIN messages

C18_AbsentReferenceNotSent ==
    ReferencesAbsent => lastCall.result.err /\ lastCall.result.sends = 0

\* a reply with a file to a message the store does not hold, in a store that holds others
C18_Witness ==
    /\ ReferencesAbsent
    /\ lastCall.name = "reply"
    /\ lastCall.file
    /\ lastCall.result.uploads = 1
    /\ messages # <<>>

(***************************************************************************)
(* C19: a history-sync message without a timestamp is dropped whatever it  *)
(* carries: handling its batch writes no messages row and no index entry   *)
(* for it, so a key the store did not hold has no row afterwards.          *)
(***************************************************************************)
UntimedBatch(evt) ==
    /\ evt.kind = "HistorySync"
    /\ evt.hs.Conversations[1].Messages # <<>>
    /\ HistoryMsg(evt).Timestamp = 0

C19_UntimedHistoryDropped ==
    [][(HandlerReturnsFrom("handleHistorySync") /\ UntimedBatch(handler.evt)) =>
          LET key == <<HistoryMsg(handler.evt).ID, handler.evt.hs.Conversations[1].ID>>
          IN  /\ messages' = messages
              /\ fts' = fts
              /\ key \notin DOMAIN messages => key \notin DOMAIN messages']_vars

\* an image without a timestamp has been handled: its sender has a chat row, the store no message
C19_Witness ==
    /\ UntimedBatch(handler.evt)
    /\ HistoryMsg(handler.evt).media.media_type = "image"
    /\ handler.steps = <<"backfillChatNames", "signal">>
    /\ ContactJid \in DOMAIN chats
    /\ messages = <<>>

(***************************************************************************)
(* C20: the sender name stored with a live message is the first non-empty  *)
(* of the mapping's name for the sender, the directory's name for the      *)
(* sender's identifier, the directory's name for the phone-based variant   *)
(* of it, and the message's push name, else empty; so it is the same on a  *)
(* sender's first and later messages whatever chat rows there are.         *)
(***************************************************************************)
SenderNameBySources(sender, senderJID, pushName) ==
    LET m == GetLIDMapping(sender)
        byJid == GetContact(senderJID)
        byPhone == GetContact(IndivJid(sender))
    IN  IF m.found /\ m.name # "" THEN m.name
        ELSE IF byJid.FullName # "" THEN byJid.FullName
        ELSE IF byJid.PushName # "" THEN byJid.PushName
        ELSE IF byPhone.FullName # "" THEN byPhone.FullName
        ELSE IF byPhone.PushName # "" THEN byPhone.PushName
        ELSE pushName

C20_SenderNameBySources ==
    [][lastCall'.name = "handleMessage" =>
          \A k \in DOMAIN messages' :
             messages'[k].sender_name =
                SenderNameBySources(messages'[k].sender, ContactJid, "ali")]_vars

(***************************************************************************)
(* C21: the name a live message gives its chat is the first available of   *)
(* the stored non-empty name, the directory's name (group info for a       *)
(* group, contact info otherwise), the message's sender string, and the    *)
(* identifier's local part; without a stored name and a directory entry a  *)
(* non-empty sender string is the name.                                    *)
(***************************************************************************)
DirectoryName(jid) ==
    IF JidServer(jid) = "g.us" THEN GetGroupInfo(jid)
    ELSE LET contact == GetContact(jid)
         IN  IF contact.FullName # "" THEN contact.FullName
             ELSE IF contact.BusinessName # "" THEN contact.BusinessName
             ELSE contact.PushName

ChatNameBySources(ch, chatJID, sender) ==
    IF chatJID \in DOMAIN ch /\ ch[chatJID].name # "" THEN ch[chatJID].name
    ELSE IF DirectoryName(chatJID) # "" THEN DirectoryName(chatJID)
    ELSE IF sender # "" THEN sender
    ELSE JidUser(chatJID)

C21_ChatNameBySources ==
    [][HandlerReturnsFrom("handleMessage") =>
          LET msg == handler.evt.msg
          IN  /\ msg.Chat \in DOMAIN chats'
              /\ chats'[msg.Chat].name = ChatNameBySources(chats, msg.Chat, JidUser(msg.Sender))]_vars


(***************************************************************************)
(* The backfill pass next to a directory whose names are free text: a     *)
(* contact may have chosen a push name that looks like an identifier.     *)
(***************************************************************************)
BackfillContactInfos ==
    ContactInfos \cup {[FullName |-> "", BusinessName |-> "", PushName |-> OwnJid]}

BackfillEvents ==
    {[kind |-> "Message", msg |-> m] : m \in ConcLiveMessages}
        \cup {[kind |-> "OfflineSyncCompleted"]}

\* the transport learns or loses the contact's names or the group's name
DirectoryLearns ==
    /\ \E c \in BackfillContactInfos, g \in GroupNames :
          /\ contacts' = [contacts EXCEPT ![ContactJid] = c]
          /\ groups' = [groups EXCEPT ![GroupJid] = g]
    /\ UNCHANGED <<chats, messages, fts, ingested, droppedBy, lid_mappings, syncComplete>>

InitBackfill ==
    /\ InitStore
    /\ contacts \in [{ContactJid} -> BackfillContactInfos]
    /\ groups \in [{GroupJid} -> GroupNames]
    /\ InitFollowing

NextBackfill ==
    \/ Deliver /\ Dispatch(BackfillEvents) /\ UNCHANGED <<lastCall, live, syncVars>>
    \/ StepHandleMessage /\ UNCHANGED <<lastCall, live, syncVars>>
    \/ StepBackfill /\ UNCHANGED <<lastCall, live, syncVars>>
    \/ StepSignal /\ UNCHANGED <<lastCall, live, syncVars>>
    \/ handler.steps = <<>> /\ DirectoryLearns
                            /\ UNCHANGED <<nEvents, lastCall, live, handler, syncVars>>

SpecBackfill == InitBackfill /\ [][NextBackfill]_vars

\* a backfill pass leaves everything but the names of chat rows alone, and
\* a name it writes is non-empty and differs from the one it replaces
BackfillFrame ==
    /\ DOMAIN chats' = DOMAIN chats
    /\ \A j \in DOMAIN chats :
          /\ chats'[j].last_message_time = chats[j].last_message_time
          /\ chats'[j].name # chats[j].name => chats'[j].name # ""
    /\ messages' = messages
    /\ fts' = fts
    /\ lid_mappings' = lid_mappings

(***************************************************************************)
(* C22 as stated: a backfill pass changes the name only of chat rows whose *)
(* stored name is empty, equals the local part of the identifier or equals *)
(* the raw identifier string, and only to a non-empty different name;      *)
(* every other chat row, every last_message_time and every messages and    *)
(* identity-mapping row is left unchanged.                                 *)
(***************************************************************************)
C22_BackfillOnlyUnresolved ==
    [][HandlerReturnsFrom("backfillChatNames") =>
          /\ BackfillFrame
          /\ \A j \in DOMAIN chats :
                chats'[j].name # chats[j].name =>
                    chats[j].name \in {"", JidUser(j), j}]_vars

(***************************************************************************)
(* C22 amended: a backfill pass changes the name only of chat rows whose   *)
(* stored name is empty, equals the local part of the identifier or, for a *)
(* chat that is not a group, ends in "@s.whatsapp.net" (the row's own raw  *)
(* identifier or any other), and only to a non-empty different name; every *)
(* other chat row, every last_message_time and every messages and          *)
(* identity-mapping row is left unchanged.                                 *)
(***************************************************************************)
C22_BackfillOnlyUnresolvedOrSuffixed ==
    [][HandlerReturnsFrom("backfillChatNames") =>
          /\ BackfillFrame
          /\ \A j \in DOMAIN chats :
                chats'[j].name # chats[j].name =>
                    \/ chats[j].name \in {"", JidUser(j)}
                    \/ JidServer(j) # "g.us" /\ HasIndivSuffix(chats[j].name)]_vars

\* a pass has just renamed the contact's chat, which held a message stored
\* while the directory did not know the name, and left the message alone
C22_Witness ==
    /\ handler.steps = <<"signal">>
    /\ ContactJid \in DOMAIN chats /\ chats[ContactJid].name = "Alice"
    /\ \E k \in DOMAIN messages : messages[k].sender_name # "Alice"


(***************************************************************************)
(* The auto-sync next to a store whose write of the sync time may fail:    *)
(* performQuickSync then returns the error (autosync.go 119-121).          *)
(***************************************************************************)
\* DB.SetLastSyncTime when the write fails: sync_state keeps what it held
SetLastSyncTimeFails(recorded, t) == [time |-> recorded, err |-> TRUE]

\* performQuickSync whose select has ended and whose write fails
QuickSyncRecordFails ==
    /\ pc \in {"quickSync", "quickSyncShared"}
    /\ \E ended \in {"complete", "timeout"} :
          LET set == SetLastSyncTimeFails(lastSync, now)
          IN  /\ ended = "complete" => syncComplete > 0
              /\ syncComplete' = IF ended = "complete" THEN syncComplete - 1 ELSE syncComplete
              /\ QuickSyncReturns([how |-> ended, lastSync |-> set.time, err |-> set.err])
    /\ lastCall' = [name |-> "recordFails"]

NextSyncFault ==
    \/ AutoSync
    \/ WithConnection
    \/ AutoSyncWithClient
    \/ CommandReturns
    \/ QuickSyncComplete
    \/ QuickSyncTimeout
    \/ QuickSyncRecordFails
    \/ Completion
    \/ Tick

\* time.After(autoSyncTimeout) fires: no wait of an auto-sync lasts for ever
SpecSyncFault == InitSync /\ [][NextSyncFault]_vars /\ WF_vars(QuickSyncTimeout)

(***************************************************************************)
(* C23: an auto-sync run without an existing connection closes the         *)
(* transient connection it opened on every path out of the operation       *)
(* (completion observed, timeout, or failure to record the sync time), and *)
(* every such wait ends; an auto-sync run with an existing live connection *)
(* performs no connect and no disconnect and leaves the connection as it   *)
(* found it.                                                               *)
(***************************************************************************)
C23_TransientClosedSharedKept ==
    /\ [][/\ pc = "quickSync" /\ pc' # "quickSync" => pc' = "idle" /\ ~connected'
          /\ pc = "idle" /\ lastCall'.name = "maybeAutoSync" /\ pc' # "quickSync" => ~connected'
          /\ pc = "idle" /\ pc' = "quickSync" => connected' /\ outcome'.connects = 1
          /\ pc \in {"inCommand", "quickSyncShared"}
                /\ pc' \in {"inCommand", "quickSyncShared"} =>
                    /\ connected /\ connected'
                    /\ outcome'.connects = outcome.connects]_vars
    /\ (pc = "quickSync" ~> ~connected)

\* a transient auto-sync has just returned the error of the failed write
C23_Witness ==
    /\ lastCall.name = "recordFails"
    /\ pc = "idle"
    /\ outcome.err /\ outcome.connects = 1
    /\ ~connected


(***************************************************************************)
(* C24: the pool holds one connection, so the statements of the live       *)
(* handler, the history-sync handler and the backfill pass run one at a    *)
(* time, in any order; a reader that runs between any two of them finds    *)
(* every messages row in the index under its current content: a search for *)
(* a token returns exactly the rows whose content holds the token.         *)
(***************************************************************************)
C24_ReaderSeesMatchingIndex ==
    /\ \A k \in DOMAIN messages : messages[k].rowid \in fts.docsize
    /\ \A tok \in AllTokens :
          SearchMessages(messages, fts, tok)
              = {k \in DOMAIN messages : tok \in Tokenize(messages[k].content)}

\* a reader's turn between two statements of the live handler, after the
\* history-sync handler has stored a row on the other goroutine
C24_Witness ==
    /\ live.pc = "insertMessage"
    /\ \E k \in DOMAIN messages : messages[k].content = <<"b">>


(***************************************************************************)
(* History-sync conversations of two messages, handled on an empty or a    *)
(* filled store: the first message with or without a timestamp and with or *)
(* without text, the second a text or an image.                            *)
(***************************************************************************)
HistoryPairs ==
    {[kind |-> "HistorySync",
      hs |-> HistorySync(chat, <<HistMsg(chat, "M1", fromMe, t1, pl1),
                                 HistMsg(chat, "M2", fromMe, t2, pl2)>>, CompleteProgress)] :
        chat \in ChatJids, fromMe \in BOOLEAN, t1 \in {0, 1}, t2 \in {0, MaxTs},
        pl1 \in {q \in Payloads : q.content \in {<<>>, <<"a">>} /\ q.media = NoMedia},
        pl2 \in {q \in Payloads : q.content = <<"b">> \/ q.media # NoMedia}}

InitHistory ==
    /\ InitStore
    /\ InitNoDirectory
    /\ InitFollowing

NextHistory ==
    \/ Deliver /\ Dispatch(HistoryPairs) /\ UNCHANGED <<lastCall, live, syncVars>>
    \/ StepHandleHistorySync /\ UNCHANGED <<lastCall, live, syncVars>>
    \/ StepBackfill /\ UNCHANGED <<lastCall, live, syncVars>>
    \/ StepSignal /\ UNCHANGED <<lastCall, live, syncVars>>

SpecHistory == InitHistory /\ [][NextHistory]_vars

\* the messages of the conversation that the handler is called with
HandledMessages == handler.evt.hs.Conversations[1].Messages
HandledChat == handler.evt.hs.Conversations[1].ID

(***************************************************************************)
(* C25: every history-sync message that carries text or media and has a    *)
(* nonzero timestamp is persisted when its conversation is handled,        *)
(* whatever the other messages of the conversation are: in particular also *)
(* when the conversation's first message has no timestamp and the chat has *)
(* no row yet.                                                             *)
(***************************************************************************)
C25_TimedHistoryPersisted ==
    [][HandlerReturnsFrom("handleHistorySync") =>
          \A i \in 1..Len(HandledMessages) :
              LET m == HandledMessages[i]
              IN  (~IsEmptyMessage(m.text, m.media.media_type) /\ m.Timestamp # 0) =>
                      /\ <<m.ID, HandledChat>> \in DOMAIN messages'
                      /\ messages'[<<m.ID, HandledChat>>].content = m.text
                      /\ messages'[<<m.ID, HandledChat>>].timestamp = m.Timestamp]_vars


(***************************************************************************)
(* C26: a history-sync message that is dropped (it has neither text nor    *)
(* media, or it has no timestamp) causes no change to any table: when      *)
(* every message of the handled conversation is dropped, the chat rows,    *)
(* the messages, the index and the identity mappings are as before.        *)
(***************************************************************************)
C26_DroppedHistoryChangesNothing ==
    [][(/\ HandlerReturnsFrom("handleHistorySync")
        /\ \A i \in 1..Len(HandledMessages) :
              \/ IsEmptyMessage(HandledMessages[i].text, HandledMessages[i].media.media_type)
              \/ HandledMessages[i].Timestamp = 0) =>
          /\ chats' = chats
          /\ messages' = messages
          /\ fts' = fts
          /\ lid_mappings' = lid_mappings]_vars


(***************************************************************************)
(* AnalyzeOggOpus on buffers with their byte extents: a buffer holds len   *)
(* bytes of a slice of capacity cap; its pages lie one after another from  *)
(* offset 0, each with a segment table of numSegments entries that         *)
(* declares payload bytes, and the buffer may end inside a page.           *)
(***************************************************************************)
\* the fixed part of a page header
OggHeaderSize == 27

\* the page loop from page k at offset i.  data[i : i+pageSize] is taken
\* while no head has been found and the page's sequence number is at most
\* 1: beyond cap the slice expression panics, beyond len it yields bytes
\* that are not part of the buffer (and hold no head block)
RECURSIVE PageLoop(_, _, _, _)
PageLoop(data, k, i, st) ==
    IF k > Len(data.pages) \/ i + OggHeaderSize >= data.len
    THEN st
    ELSE LET pg == data.pages[k]
             pageSize == OggHeaderSize + pg.numSegments + pg.payload
             sliced == ~st.foundHead /\ pg.seq <= 1
         IN  IF i + OggHeaderSize + pg.numSegments >= data.len
             THEN st
             ELSE IF sliced /\ i + pageSize > data.cap
             THEN [st EXCEPT !.fault = "panic"]
             ELSE PageLoop(data, k + 1, i + pageSize,
                           [foundHead |-> st.foundHead
                                            \/ (/\ sliced /\ pg.head = "full"
                                                /\ i + pageSize <= data.len),
                            visited |-> Append(st.visited, pg),
                            fault |-> IF sliced /\ i + pageSize > data.len
                                      THEN "overread" ELSE st.fault])

\* AnalyzeOggOpus on such a buffer: every way the call can end
AnalyzeBytes(data) ==
    IF data.len < 4 \/ ~data.oggS
    THEN {[outcome |-> "error", duration |-> 0, overread |-> FALSE]}
    ELSE LET st == PageLoop(data, 1, 0,
                            [foundHead |-> FALSE, visited |-> <<>>, fault |-> "none"])
         IN  IF st.fault = "panic"
             THEN {[outcome |-> "panic", duration |-> 0, overread |-> FALSE]}
             ELSE {[outcome |-> "ok", duration |-> r.duration,
                    overread |-> st.fault = "overread"] :
                      r \in AnalyzeOggOpus([len |-> data.len, oggS |-> data.oggS,
                                            pages |-> st.visited])}

\* a head page of 52 bytes and an audio page of 128, whole or cut: in the
\* header, after the segment table, inside the payload
OggCutBuffers ==
    LET page(g, sq, h, n, p) ==
            [granule |-> g, seq |-> sq, head |-> h, preSkip |-> 312, sampleRate |-> 48000,
             numSegments |-> n, payload |-> p]
        head == page(0, 0, "full", 1, 24)
        audio == {page(g, sq, "none", 1, 100) : g \in {0, 48312}, sq \in {1, 2}}
    IN  {[len |-> n, cap |-> n + spare, oggS |-> sig, pages |-> ps] :
            n \in {3, 4, 27, 28, 29, 51, 52, 53, 80, 81, 179, 180, 181},
            spare \in {0, 1, 512},
            sig \in BOOLEAN,
            ps \in {<<>>, <<head>>} \cup {<<a>> : a \in audio}
                     \cup {<<head, a>> : a \in audio}}

\* a voice note, possibly cut short, is analysed
AnalyzeCut ==
    /\ lastCall = NoCall
    /\ \E data \in OggCutBuffers :
          \E r \in AnalyzeBytes(data) :
             lastCall' = [name |-> "AnalyzeBytes", data |-> data, result |-> r]
    /\ UNCHANGED <<ingestVars, live, handler, syncVars>>

SpecOggCut == InitStoreCalls /\ [][AnalyzeCut]_vars

(***************************************************************************)
(* C27: for every byte buffer, including buffers truncated in the middle   *)
(* of a page whose segment table declares more payload than the buffer     *)
(* holds, AnalyzeOggOpus finishes and returns either the format error or a *)
(* duration in [1, 300] with a waveform, and it never reads outside the    *)
(* buffer.                                                                 *)
(***************************************************************************)
C27_OggAlwaysReturns ==
    lastCall.name = "AnalyzeBytes" =>
        \/ lastCall.result.outcome = "error"
        \/ /\ lastCall.result.outcome = "ok"
           /\ lastCall.result.duration \in MinDuration..MaxDuration
           /\ ~lastCall.result.overread


(***************************************************************************)
(* C28: a chat whose stored name is a placeholder synthesised when the     *)
(* directory had no name (the local part for an individual, "Group <id>"   *)
(* for a group) receives the directory name at the first backfill pass     *)
(* that runs while the directory holds a name.                             *)
(***************************************************************************)
C28_PlaceholderBackfilled ==
    [][HandlerReturnsFrom("backfillChatNames") =>
          \A j \in DOMAIN chats :
              (/\ DirectoryName(j) # ""
               /\ chats[j].name = IF JidServer(j) = "g.us"
                                  THEN GroupPlaceholder(JidUser(j))
                                  ELSE JidUser(j)) =>
                  chats'[j].name = DirectoryName(j)]_vars


(***************************************************************************)
(* C29: when an auto-sync is due but is abandoned before the wait (no      *)
(* stored credentials, client creation fails, or the connection attempt    *)
(* fails), the last sync time is left unchanged, so a sync stays due at    *)
(* every later time, and the next invocation does not judge it not due.    *)
(***************************************************************************)
AbandonedOutcomes == {"unauth", "newfail", "connfail"}

C29_AbandonedStaysDue ==
    [][/\ (/\ pc = "idle"
           /\ lastCall'.name = "maybeAutoSync"
           /\ outcome'.how \in AbandonedOutcomes) =>
              /\ lastSync' = lastSync
              /\ pc' = "idle"
              /\ \A t \in now'..(MaxNow + 1) : shouldAutoSync(FALSE, lastSync', t)
       /\ (/\ lastCall.name = "maybeAutoSync"
           /\ outcome.how \in AbandonedOutcomes
           /\ lastCall'.name = "maybeAutoSync"
           /\ ~noAutoSync') =>
              outcome'.how # "notdue"]_vars

\* a sync recorded earlier has gone stale and the attempt to renew it has
\* just failed to connect
C29_Witness ==
    /\ lastCall.name = "maybeAutoSync"
    /\ outcome.how = "connfail"
    /\ lastSync # ZeroTime
    /\ pc = "idle"


(***************************************************************************)
(* The pool of one connection (SetMaxOpenConns(1)).  A statement run with  *)
(* Exec or QueryRow(...).Scan takes the connection and gives it back in    *)
(* one step; Query keeps it until its rows are closed, which rows.Next     *)
(* does when it returns false.  The live handler runs statement by         *)
(* statement, the backfill pass row by row on the other goroutine, and a   *)
(* command lists or searches (scanMessages, ListChats) row by row:         *)
(* handler holds the position of the pass, pc and lastCall that of the     *)
(* command.                                                                *)
(***************************************************************************)
BackfillCursorOpen == "cursor" \in DOMAIN handler /\ handler.cursor

\* no result cursor is open: the connection is in the pool
ConnFree == ~BackfillCursorOpen /\ pc # "rows"

\* backfillChatNames, line 658: SELECT jid, COALESCE(name, '') FROM chats
BackfillQuery ==
    /\ handler = HandlerIdle
    /\ ConnFree
    /\ handler' = [evt |-> [kind |-> "OfflineSyncCompleted"],
                   steps |-> <<"backfillChatNames", "signal">>,
                   cursor |-> TRUE, rows |-> DOMAIN chats, toUpdate |-> <<>>]
    /\ UNCHANGED <<chats, messages, fts, ingested, droppedBy, lid_mappings, contacts, groups,
                   syncComplete>>

\* a scan loop that runs the UPDATE for a selected row before the next row
BackfillNextNested ==
    /\ BackfillCursorOpen
    /\ IF handler.rows = {}
       THEN handler' = [handler EXCEPT !.cursor = FALSE] /\ chats' = chats
       ELSE \E j \in handler.rows :
               /\ NeedsBackfill(j, chats[j].name) => ConnFree
               /\ chats' = IF NeedsBackfill(j, chats[j].name)
                           THEN BackfillRow(chats, [jid |-> j, name |-> chats[j].name])
                           ELSE chats
               /\ handler' = [handler EXCEPT !.rows = @ \ {j}]
    /\ UNCHANGED <<messages, fts, ingested, droppedBy, lid_mappings, contacts, groups,
                   syncComplete, nEvents>>

\* lines 671-694: rows.Next() and the selection of the row; Next closes the
\* rows when it returns false
BackfillNext ==
    /\ BackfillCursorOpen
    /\ IF handler.rows = {}
       THEN handler' = [handler EXCEPT !.cursor = FALSE]
       ELSE \E j \in handler.rows :
               handler' = [handler EXCEPT
                              !.rows = @ \ {j},
                              !.toUpdate = IF NeedsBackfill(j, chats[j].name)
                                           THEN Append(@, [jid |-> j, name |-> chats[j].name])
                                           ELSE @]
    /\ UNCHANGED <<chats, messages, fts, ingested, droppedBy, lid_mappings, contacts, groups,
                   syncComplete, nEvents>>

\* lines 697-707: one iteration over toUpdate; the UPDATE needs the connection
BackfillUpdate ==
    /\ "cursor" \in DOMAIN handler /\ ~handler.cursor
    /\ handler.toUpdate # <<>>
    /\ LET r == Head(handler.toUpdate)
       IN  /\ resolvePreferredName(r.jid) \notin {"", r.name} => ConnFree
           /\ chats' = BackfillRow(chats, r)
    /\ handler' = [handler EXCEPT !.toUpdate = Tail(@)]
    /\ UNCHANGED <<messages, fts, ingested, droppedBy, lid_mappings, contacts, groups,
                   syncComplete, nEvents>>

\* the pass returns and the handler signals
BackfillReturns ==
    /\ "cursor" \in DOMAIN handler /\ ~handler.cursor
    /\ handler.toUpdate = <<>>
    /\ handler' = HandlerIdle
    /\ syncComplete' = SignalComplete(syncComplete)
    /\ UNCHANGED <<chats, messages, fts, ingested, droppedBy, lid_mappings, contacts, groups,
                   nEvents>>

\* scanMessages, line 209 (ListChats, line 38): Query
ScanQuery ==
    /\ pc = "command"
    /\ ConnFree
    /\ pc' = "rows"
    /\ lastCall' = [name |-> "scanMessages", rows |-> DOMAIN messages]
    /\ UNCHANGED <<chats, messages, fts, ingested, droppedBy, lid_mappings, contacts, groups,
                   syncComplete, live, handler, now, lastSync, noAutoSync, session, connected,
                   cancelled, outcome>>

\* lines 216-241: rows.Next() and Scan; Next closes the rows when it returns false
ScanNext ==
    /\ pc = "rows"
    /\ IF lastCall.rows = {}
       THEN pc' = "done" /\ lastCall' = [name |-> "scanMessages"]
       ELSE pc' = pc /\ \E k \in lastCall.rows : lastCall' = [lastCall EXCEPT !.rows = @ \ {k}]
    /\ UNCHANGED <<ingestVars, live, handler, now, lastSync, noAutoSync, session, connected,
                   cancelled, outcome>>

InitPool ==
    /\ InitStore
    /\ InitNoDirectory
    /\ lastCall = NoCall
    /\ live = LiveIdle
    /\ handler = HandlerIdle
    /\ now = 1
    /\ lastSync = ZeroTime
    /\ noAutoSync = FALSE
    /\ session = "paired"
    /\ connected = TRUE
    /\ cancelled = FALSE
    /\ pc = "command"
    /\ outcome = NoOutcome

\* the contact writes to the individual chat, live or in a history batch
PoolLiveMessages == {m \in ConcLiveMessages : m.Chat = ContactJid}
PoolHistorySyncs ==
    {hs \in ConcHistorySyncs :
        /\ hs.Conversations[1].ID = ContactJid
        /\ hs.Conversations[1].Messages # <<>>
        /\ hs.Progress < CompleteProgress}

\* the transport learns the contact's name
ContactLearned ==
    /\ contacts[ContactJid] = NoContact
    /\ contacts' = [contacts EXCEPT
                       ![ContactJid] = [FullName |-> "Alice", BusinessName |-> "",
                                        PushName |-> "ali"]]
    /\ UNCHANGED <<chats, messages, fts, ingested, droppedBy, lid_mappings, groups,
                   syncComplete>>

\* a statement of the live handler
LiveStatement ==
    LiveShadowSelect \/ LiveShadowWrite \/ LiveGetChatName \/ LiveUpsertChat \/ LiveInsertMessage

NextPool ==
    \/ Deliver /\ LiveReceive(PoolLiveMessages) /\ UNCHANGED <<lastCall, handler, syncVars>>
    \/ ConnFree /\ LiveStatement /\ UNCHANGED <<lastCall, handler, syncVars>>
    \/ Deliver /\ handler = HandlerIdle /\ ConnFree /\ OnHistorySync(PoolHistorySyncs)
               /\ UNCHANGED <<lastCall, live, handler, syncVars>>
    \/ Deliver /\ BackfillQuery /\ UNCHANGED <<lastCall, live, syncVars>>
    \/ BackfillNext /\ UNCHANGED <<lastCall, live, syncVars>>
    \/ BackfillUpdate /\ UNCHANGED <<lastCall, live, syncVars>>
    \/ BackfillReturns /\ UNCHANGED <<lastCall, live, syncVars>>
    \/ ScanQuery /\ UNCHANGED nEvents
    \/ ScanNext
    \/ ContactLearned /\ UNCHANGED <<nEvents, lastCall, live, handler, syncVars>>

\* the steps of operations that have begun
PoolStep ==
    \/ ConnFree /\ LiveStatement /\ UNCHANGED <<lastCall, handler, syncVars>>
    \/ (BackfillNext \/ BackfillUpdate \/ BackfillReturns) /\ UNCHANGED <<lastCall, live, syncVars>>
    \/ ScanNext

\* a goroutine that can take a step is scheduled, and the pool hands the
\* connection to a waiting statement when it is free
SpecPool == InitPool /\ [][NextPool]_vars /\ WF_vars(PoolStep)

(***************************************************************************)
(* C30: with the pool limited to one connection no store operation         *)
(* (listing, search, live ingestion, history-sync ingestion, backfill      *)
(* pass) issues a statement while a result cursor is open, its own         *)
(* included, and under any interleaving every operation that has begun     *)
(* obtains the connection and completes.                                   *)
(***************************************************************************)
C30_NoStatementUnderCursor ==
    /\ []~(BackfillCursorOpen /\ pc = "rows")
    /\ [][(chats' # chats \/ messages' # messages) => ConnFree]_vars
    /\ (handler # HandlerIdle ~> handler = HandlerIdle)
    /\ (pc = "rows" ~> pc = "done")
    /\ (live.pc # "idle" ~> live.pc = "idle")

\* the pass waits with a rename pending while the command's cursor is open
C30_Witness ==
    /\ pc = "rows"
    /\ "cursor" \in DOMAIN handler /\ ~handler.cursor
    /\ handler.toUpdate # <<>>
    /\ resolvePreferredName(Head(handler.toUpdate).jid) \notin {"", Head(handler.toUpdate).name}

====
